---- MODULE Spec2Model ----
(***************************************************************************)
(* Client Hub: task ranking (ranking.py), recurrence expansion             *)
(* (recurring.py), task CRUD (crud.py) and the task upsert webhook         *)
(* (webhooks.py).                                                          *)
(*                                                                         *)
(* Scores are kept in thousandths of a point, so that round(score, 2) is   *)
(* a real rounding to a multiple of 10.  Dates are day numbers; day 1 is a *)
(* Monday, so Weekday(d) = (d - 1) % 7 is Python's date.weekday().          *)
(***************************************************************************)
EXTENDS Integers, Sequences, FiniteSets, TLC

VARIABLES
    weights,      \* settings.ranking_weights
    today,        \* reference date handed to the ranking functions
    now,          \* the current instant (day resolution), datetime.now()
    task,         \* the task handed to calculate_task_rank / explain_rank
    score,        \* result of calculate_task_rank(task), NoScore before the call
    breakdown,    \* result of explain_rank(task), NoBreakdown before the call
    tasks,        \* the list handed to rank_tasks
    ranked,       \* the list rank_tasks returned, <<>> before the call
    db_tasks,     \* the "tasks" table read by recurrence expansion: row i has id i
    clock,        \* datetime.now(tz) as seen by recurrence expansion
    call,         \* the generate_recurring_instances call in progress
    returns,      \* what the finished generate_recurring_instances calls returned
    task_rows,    \* the "tasks" table behind the hub's CRUD: row i has id i
    subtask_rows, \* the "subtasks" table: row i has id i
    last,         \* the last hub operation: its name, its writes and its tally
    ops,          \* number of hub operations carried out
    rules,        \* settings.client_matching_rules
    event_data,   \* the calendar event handed to match_event_to_client
    matched,      \* what match_event_to_client returned, NotMatched before
    expanders,    \* the concurrent generate_recurring_instances requests, step by step
    db_subtasks,  \* the "subtasks" table read and written by recurrence expansion
    activity_log, \* the "activity_log" table
    view,         \* what the last view request returned, NoView before
    calendar_events \* the "calendar_events" table, one row per gcal_event_id

rankVars == <<weights, today, now, task, score, breakdown, tasks, ranked>>

recurVars == <<db_tasks, clock, call, returns>>

hubVars == <<task_rows, subtask_rows, last, ops>>

matchVars == <<rules, event_data, matched>>

stepVars == <<expanders, db_subtasks, activity_log>>

viewVars == <<view>>

calVars == <<calendar_events>>

vars == <<rankVars, recurVars, hubVars, matchVars, stepVars, viewVars, calVars>>

-----------------------------------------------------------------------------
(* Bounds *)

MaxTasks == 3            \* longest list handed to rank_tasks
MaxAgeDays == 60         \* oldest task, in days
MaxOverdueDays == 32     \* most overdue task, in days
MaxTemplates == 2        \* recurring templates in the store
MaxCalls == 2            \* generate_recurring_instances calls in one behaviour
LastClockDay == 10       \* the clock stops advancing on this day
MaxHubTasks == 2         \* rows of the hub's tasks table
MaxSubtasks == 2         \* rows of the hub's subtasks table
MaxOps == 3              \* hub operations in one behaviour
MaxRows == 6             \* rows of the tasks table under concurrent expansion

-----------------------------------------------------------------------------
(* models.py enums *)

TaskStatus == {"NOT_STARTED", "IN_PROGRESS", "PENDING", "COMPLETED"}
TaskPriority == {"P0", "P1", "P2", "P3"}

NoDate == 0              \* a date column that is NULL / None
NoScore == -999999999    \* rank not computed yet
NoBreakdown == [total |-> NoScore, components |-> <<>>]

(* models.py RankingWeights defaults; client_weight_multiplier in thousandths *)
DefaultWeights ==
    [overdue |-> 100, due_today |-> 60,
     priority_p0 |-> 50, priority_p1 |-> 30, priority_p2 |-> 15, priority_p3 |-> 0,
     in_progress |-> 10, pending |-> -10,
     client_weight_multiplier |-> 1000]

(* a hot-reloaded configuration: fractional multiplier, heavier overdue *)
TunedWeights ==
    [overdue |-> 2000, due_today |-> 45,
     priority_p0 |-> 40, priority_p1 |-> 25, priority_p2 |-> 10, priority_p3 |-> 5,
     in_progress |-> 8, pending |-> -25,
     client_weight_multiplier |-> 333]

(* every weight zero: all scores tie except for pinning and age *)
FlatWeights ==
    [overdue |-> 0, due_today |-> 0,
     priority_p0 |-> 0, priority_p1 |-> 0, priority_p2 |-> 0, priority_p3 |-> 0,
     in_progress |-> 0, pending |-> 0,
     client_weight_multiplier |-> 0]

WeightConfigs == {DefaultWeights, TunedWeights, FlatWeights}

NoClient == [present |-> FALSE, default_priority_weight |-> 0]
Client(w) == [present |-> TRUE, default_priority_weight |-> w]

-----------------------------------------------------------------------------
(* ranking.py *)

Min(a, b) == IF a <= b THEN a ELSE b
Abs(a) == IF a < 0 THEN 0 - a ELSE a

(* Python round(x, 2) on a value in thousandths: nearest multiple of 10,   *)
(* ties to even.                                                            *)
Round2(x) ==
    LET q == x \div 10
        r == x % 10
    IN  IF r < 5 THEN q * 10
        ELSE IF r > 5 THEN (q + 1) * 10
        ELSE IF q % 2 = 0 THEN q * 10 ELSE (q + 1) * 10

PinnedScoreSmall(t) == IF t.pinned_today THEN 100 * 1000 ELSE 0

PinnedScore(t) == IF t.pinned_today THEN 1000 * 1000 ELSE 0

PriorityScoreOffByOne(t, w) ==
    CASE t.priority = "P0" -> w.priority_p1 * 1000
      [] t.priority = "P1" -> w.priority_p2 * 1000
      [] t.priority = "P2" -> w.priority_p3 * 1000
      [] OTHER -> w.priority_p3 * 1000

PriorityScore(t, w) ==
    CASE t.priority = "P0" -> w.priority_p0 * 1000
      [] t.priority = "P1" -> w.priority_p1 * 1000
      [] t.priority = "P2" -> w.priority_p2 * 1000
      [] t.priority = "P3" -> w.priority_p3 * 1000
      [] OTHER -> w.priority_p2 * 1000

DueScoreUncapped(t, w, day) ==
    IF t.due_date = NoDate THEN 0
    ELSE LET days_until == t.due_date - day
         IN  IF days_until < 0
                 THEN (w.overdue + (Abs(days_until) * 2)) * 1000
             ELSE IF days_until = 0 THEN w.due_today * 1000
             ELSE IF days_until <= 3 THEN w.due_today * (800 - (days_until * 200))
             ELSE IF days_until <= 7 THEN w.due_today * 300
             ELSE 0

DueScore(t, w, day) ==
    IF t.due_date = NoDate THEN 0
    ELSE LET days_until == t.due_date - day
         IN  IF days_until < 0
                 THEN (w.overdue + (Min(Abs(days_until), 30) * 2)) * 1000
             ELSE IF days_until = 0 THEN w.due_today * 1000
             ELSE IF days_until <= 3 THEN w.due_today * (800 - (days_until * 200))
             ELSE IF days_until <= 7 THEN w.due_today * 300
             ELSE 0

StatusScore(t, w) ==
    IF t.status = "IN_PROGRESS" THEN w.in_progress * 1000
    ELSE IF t.status = "PENDING" THEN w.pending * 1000
    ELSE 0

ClientScore(t, w) ==
    IF t.client.present /\ t.client.default_priority_weight # 0
        THEN t.client.default_priority_weight * w.client_weight_multiplier
        ELSE 0

AgeScore(t, instant) ==
    IF t.created_at = NoDate THEN 0
    ELSE Min((instant - t.created_at) * 100, 5000)

calculate_task_rank(t, w, day, instant) ==
    Round2(PinnedScore(t) + PriorityScore(t, w) + DueScore(t, w, day)
           + StatusScore(t, w) + ClientScore(t, w) + AgeScore(t, instant))

(* explain_rank: the components list and the running total *)
explain_rank(t, w, day) ==
    LET pinned == IF t.pinned_today
                      THEN <<[factor |-> "Pinned", score |-> 1000 * 1000]>>
                      ELSE <<>>
        priority == <<[factor |-> "Priority", score |-> PriorityScore(t, w)]>>
        due_score == DueScore(t, w, day)
        due == IF due_score # 0
                   THEN <<[factor |-> "Due Date", score |-> Round2(due_score)]>>
                   ELSE <<>>
        status_score == StatusScore(t, w)
        status == IF status_score # 0
                      THEN <<[factor |-> "Status", score |-> status_score]>>
                      ELSE <<>>
        client_score == ClientScore(t, w)
        client == IF t.client.present /\ t.client.default_priority_weight # 0
                      THEN <<[factor |-> "Client Priority",
                              score |-> Round2(client_score)]>>
                      ELSE <<>>
    IN  [total |-> Round2(PinnedScore(t) + PriorityScore(t, w) + due_score
                          + status_score + client_score),
         components |-> pinned \o priority \o due \o status \o client]

(* sorted(..., key, reverse=True): a stable sort, descending by key.       *)
(* InsertDesc puts x after every element whose key is >= x's key.          *)
RECURSIVE InsertDescUnstable(_, _)
InsertDescUnstable(x, s) ==
    IF s = <<>> THEN <<x>>
    ELSE IF Head(s).rank_score > x.rank_score
        THEN <<Head(s)>> \o InsertDescUnstable(x, Tail(s))
        ELSE <<x>> \o s

RECURSIVE InsertDesc(_, _)
InsertDesc(x, s) ==
    IF s = <<>> THEN <<x>>
    ELSE IF Head(s).rank_score >= x.rank_score
        THEN <<Head(s)>> \o InsertDesc(x, Tail(s))
        ELSE <<x>> \o s

SortedDescNone(s) == s

RECURSIVE SortedDesc(_)
SortedDesc(s) ==
    IF s = <<>> THEN <<>>
    ELSE InsertDesc(s[Len(s)], SortedDesc(SubSeq(s, 1, Len(s) - 1)))

rank_tasks(ts, w, day, instant) ==
    SortedDesc([i \in 1..Len(ts) |->
        [ts[i] EXCEPT !.rank_score = calculate_task_rank(ts[i], w, day, instant)]])

-----------------------------------------------------------------------------
(* recurring.py: dates, timestamps and recurrence rules *)

(* date.weekday(): Monday is 0, Sunday is 6 *)
Weekday(d) == (d - 1) % 7
WeekStart(d) == d - Weekday(d)

IsWeekendSundayOnly(d) == Weekday(d) > 5

IsWeekend(d) == Weekday(d) >= 5

(* A timestamp is a date and a time of day: tod 0 is midnight              *)
(* (datetime.min.time()), tod 1 is any later time of the day.  The stored   *)
(* timestamps and the horizon are compared in the template's timezone.      *)
TimesOfDay == {0, 1}
Dt(d, t) == [date |-> d, tod |-> t]
NoDt == Dt(NoDate, 0)
Midnight(d) == Dt(d, 0)
DtLess(a, b) == a.date < b.date \/ (a.date = b.date /\ a.tod < b.tod)
DtLeq(a, b) == a = b \/ DtLess(a, b)

NoRule == "NONE"
ParseError == [freq |-> "ERROR", interval |-> 1, byday |-> {}, count |-> 0]

(* rrulestr: the rule strings in use and what they parse to; count 0 means *)
(* no COUNT part, byday {} no BYDAY part.                                   *)
rrulestr(rrule_str) ==
    CASE rrule_str = "FREQ=DAILY" ->
            [freq |-> "DAILY", interval |-> 1, byday |-> {}, count |-> 0]
      [] rrule_str = "FREQ=DAILY;INTERVAL=2" ->
            [freq |-> "DAILY", interval |-> 2, byday |-> {}, count |-> 0]
      [] rrule_str = "FREQ=DAILY;COUNT=1" ->
            [freq |-> "DAILY", interval |-> 1, byday |-> {}, count |-> 1]
      [] rrule_str = "FREQ=WEEKLY" ->
            [freq |-> "WEEKLY", interval |-> 1, byday |-> {}, count |-> 0]
      [] rrule_str = "FREQ=WEEKLY;BYDAY=MO" ->
            [freq |-> "WEEKLY", interval |-> 1, byday |-> {0}, count |-> 0]
      [] rrule_str = "FREQ=WEEKLY;BYDAY=SA,SU" ->
            [freq |-> "WEEKLY", interval |-> 1, byday |-> {5, 6}, count |-> 0]
      [] OTHER -> ParseError

(* the dates the rule with start date s yields, COUNT left aside *)
BaseOccurs(rule, s, d) ==
    /\ d >= s
    /\ IF rule.freq = "DAILY"
           THEN (d - s) % rule.interval = 0
           ELSE /\ ((WeekStart(d) - WeekStart(s)) \div 7) % rule.interval = 0
                /\ Weekday(d) \in (IF rule.byday = {} THEN {Weekday(s)}
                                                      ELSE rule.byday)

Occurs(rule, s, d) ==
    /\ BaseOccurs(rule, s, d)
    /\ \/ rule.count = 0
       \/ Cardinality({e \in s..d : BaseOccurs(rule, s, e)}) <= rule.count

(* the rule repeats with this period, so a window of that many days holds  *)
(* an occurrence unless COUNT is used up                                    *)
RulePeriod(rule) ==
    IF rule.freq = "DAILY" THEN rule.interval ELSE 7 * rule.interval

(* rule.after(dt): the first occurrence strictly after dt, NoDt when the   *)
(* rule has none; every occurrence has dtstart's time of day.               *)
RuleAfter(rule, dtstart, dt) ==
    LET first == IF dtstart.tod > dt.tod THEN dt.date ELSE dt.date + 1
        from == IF first >= dtstart.date THEN first ELSE dtstart.date
        cands == {d \in from..(from + RulePeriod(rule) - 1) :
                      Occurs(rule, dtstart.date, d)}
    IN  IF cands = {} THEN NoDt
        ELSE Dt(CHOOSE d \in cands : \A e \in cands : d <= e, dtstart.tod)

-----------------------------------------------------------------------------
(* recurring.py: the store and the expansion *)

NoId == 0

Template(rule, anchor, next, end, skip) ==
    [id |-> NoId, is_recurring |-> TRUE, archived |-> FALSE,
     recurrence_rule |-> rule, recurrence_anchor_date |-> anchor,
     next_occurrence_at |-> next, recurrence_end_date |-> end,
     recurrence_skip_weekends |-> skip,
     parent_recurring_task_id |-> NoId, due_date |-> NoDate,
     status |-> "NOT_STARTED"]

(* the row create_recurring_instance inserts and links to its parent *)
Instance(id, recurring_task, instance_date) ==
    [id |-> id, is_recurring |-> FALSE, archived |-> FALSE,
     recurrence_rule |-> NoRule, recurrence_anchor_date |-> NoDate,
     next_occurrence_at |-> NoDt, recurrence_end_date |-> NoDate,
     recurrence_skip_weekends |-> FALSE,
     parent_recurring_task_id |-> recurring_task.id, due_date |-> instance_date,
     status |-> "NOT_STARTED"]

NoRow == Template(NoRule, NoDate, NoDt, NoDate, FALSE)

IdleCall ==
    [pc |-> "idle", up_to_date |-> NoDate, selected |-> <<>>,
     result_data |-> <<>>, raised |-> {},
     recurring_task |-> NoRow, dtstart |-> NoDt, current |-> NoDate,
     created |-> <<>>, created_instances |-> <<>>]

IsCandidateAnyTime(row, up_to_date) ==
    /\ row.is_recurring
    /\ ~row.archived
    /\ row.next_occurrence_at # NoDt

(* the select of generate_recurring_instances: recurring, not archived,    *)
(* next_occurrence_at not null and <= up_to_date                            *)
IsCandidate(row, up_to_date) ==
    /\ row.is_recurring
    /\ ~row.archived
    /\ row.next_occurrence_at # NoDt
    /\ DtLeq(row.next_occurrence_at, Midnight(up_to_date))

SelectCandidates(table, up_to_date) ==
    SelectSeq(table, LAMBDA row : IsCandidate(row, up_to_date))

InstanceExists(table, parent_id, d) ==
    \E i \in 1..Len(table) :
        table[i].parent_recurring_task_id = parent_id /\ table[i].due_date = d

PastEndIgnored(c) == FALSE

(* if end_date and current > end_date: break *)
PastEnd(c) ==
    /\ c.recurring_task.recurrence_end_date # NoDate
    /\ c.current > c.recurring_task.recurrence_end_date

InLoopExclusive(c) ==
    /\ c.pc = "while"
    /\ c.current < c.up_to_date
    /\ ~PastEnd(c)

InLoop(c) ==
    /\ c.pc = "while"
    /\ c.current <= c.up_to_date
    /\ ~PastEnd(c)

(* generate_recurring_instances up to the select *)
GenerateRecurringInstances(up_to_date) ==
    /\ call.pc = "idle"
    /\ Len(returns) < MaxCalls
    /\ call' = [IdleCall EXCEPT !.pc = "for", !.up_to_date = up_to_date,
                    !.selected = SelectCandidates(db_tasks, up_to_date),
                    !.result_data = SelectCandidates(db_tasks, up_to_date)]
    /\ UNCHANGED <<db_tasks, clock, returns>>
    /\ UNCHANGED <<rankVars, hubVars, matchVars, stepVars, viewVars, calVars>>

(* generate_instances_for_task up to the while loop: a missing or          *)
(* unparsable rule returns [] *)
BeginTemplate ==
    /\ call.pc = "for"
    /\ call.result_data # <<>>
    /\ LET row == Head(call.result_data)
       IN  IF row.recurrence_rule = NoRule
                  \/ rrulestr(row.recurrence_rule) = ParseError
               THEN call' = [call EXCEPT !.result_data = Tail(@)]
               ELSE call' = [call EXCEPT
                       !.pc = "while",
                       !.recurring_task = row,
                       !.dtstart = IF row.recurrence_anchor_date # NoDate
                                       THEN Midnight(row.recurrence_anchor_date)
                                       ELSE clock,
                       !.current = IF row.next_occurrence_at # NoDt
                                       THEN row.next_occurrence_at.date
                                       ELSE clock.date,
                       !.created = <<>>]
    /\ UNCHANGED <<db_tasks, clock, returns>>
    /\ UNCHANGED <<rankVars, hubVars, matchVars, stepVars, viewVars, calVars>>

(* the loop condition fails, or the end date is passed: leave the loop *)
LoopExit ==
    /\ call.pc = "while"
    /\ ~InLoop(call)
    /\ call' = [call EXCEPT !.pc = "update"]
    /\ UNCHANGED <<db_tasks, clock, returns>>
    /\ UNCHANGED <<rankVars, hubVars, matchVars, stepVars, viewVars, calVars>>

(* a weekend cursor of a skip-weekends template moves to the next Monday *)
SkipWeekend ==
    /\ InLoop(call)
    /\ call.recurring_task.recurrence_skip_weekends
    /\ IsWeekend(call.current)
    /\ call' = [call EXCEPT !.current = @ + (7 - Weekday(@))]
    /\ UNCHANGED <<db_tasks, clock, returns>>
    /\ UNCHANGED <<rankVars, hubVars, matchVars, stepVars, viewVars, calVars>>

(* one full iteration: existence check, create_recurring_instance, and the *)
(* step to the next occurrence *)
Materialize ==
    /\ InLoop(call)
    /\ ~(call.recurring_task.recurrence_skip_weekends /\ IsWeekend(call.current))
    /\ LET parent == call.recurring_task
           exists == InstanceExists(db_tasks, parent.id, call.current)
           new_id == Len(db_tasks) + 1
           next_dt == RuleAfter(rrulestr(parent.recurrence_rule), call.dtstart,
                                Midnight(call.current))
       IN  /\ db_tasks' = IF exists THEN db_tasks
                          ELSE Append(db_tasks,
                                      Instance(new_id, parent, call.current))
           /\ call' = [call EXCEPT
                   !.created = IF exists THEN @ ELSE Append(@, new_id),
                   !.current = IF next_dt = NoDt THEN @ ELSE next_dt.date,
                   !.pc = IF next_dt = NoDt THEN "update" ELSE @]
    /\ UNCHANGED <<clock, returns>>
    /\ UNCHANGED <<rankVars, hubVars, matchVars, stepVars, viewVars, calVars>>

(* a request to the store raises inside the loop: the exception leaves     *)
(* generate_instances_for_task, the except clause of                        *)
(* generate_recurring_instances prints it and the for loop goes on; what    *)
(* this template had created is not added to created_instances              *)
ProcessingRaisesAbort ==
    /\ InLoop(call)
    /\ call' = [call EXCEPT !.pc = "for", !.result_data = <<>>,
                    !.raised = @ \cup {call.recurring_task.id},
                    !.created = <<>>]
    /\ UNCHANGED <<db_tasks, clock, returns>>
    /\ UNCHANGED <<rankVars, hubVars, matchVars, stepVars, viewVars, calVars>>

ProcessingRaises ==
    /\ InLoop(call)
    /\ call' = [call EXCEPT !.pc = "for", !.result_data = Tail(@),
                    !.raised = @ \cup {call.recurring_task.id},
                    !.created = <<>>]
    /\ UNCHANGED <<db_tasks, clock, returns>>
    /\ UNCHANGED <<rankVars, hubVars, matchVars, stepVars, viewVars, calVars>>

(* after the loop: store the first occurrence after the horizon, if any,   *)
(* and hand the created instances back to generate_recurring_instances      *)
UpdateNextOccurrence ==
    /\ call.pc = "update"
    /\ LET parent == call.recurring_task
           next_dt == RuleAfter(rrulestr(parent.recurrence_rule), call.dtstart,
                                Midnight(call.up_to_date))
       IN  db_tasks' = IF next_dt = NoDt THEN db_tasks
                       ELSE [db_tasks EXCEPT
                                ![parent.id].next_occurrence_at = next_dt]
    /\ call' = [call EXCEPT !.pc = "for",
                    !.result_data = Tail(@),
                    !.created_instances = @ \o call.created,
                    !.created = <<>>]
    /\ UNCHANGED <<clock, returns>>
    /\ UNCHANGED <<rankVars, hubVars, matchVars, stepVars, viewVars, calVars>>

(* generate_recurring_instances returns created_instances *)
Return ==
    /\ call.pc = "for"
    /\ call.result_data = <<>>
    /\ returns' = Append(returns, [up_to_date |-> call.up_to_date,
                                   selected |-> call.selected,
                                   raised |-> call.raised, now |-> clock,
                                   created |-> call.created_instances])
    /\ call' = IdleCall
    /\ UNCHANGED <<db_tasks, clock>>
    /\ UNCHANGED <<rankVars, hubVars, matchVars, stepVars, viewVars, calVars>>

(* time passes between two calls *)
Tick ==
    /\ call.pc = "idle"
    /\ clock.date < LastClockDay
    /\ \E t \in TimesOfDay : clock' = Dt(clock.date + 1, t)
    /\ UNCHANGED <<db_tasks, call, returns>>
    /\ UNCHANGED <<rankVars, hubVars, matchVars, stepVars, viewVars, calVars>>

(* Day 1 is a Monday: 5 is a Friday, 6 a Saturday, 8 the next Monday *)
RuleStrings ==
    {"FREQ=DAILY", "FREQ=DAILY;INTERVAL=2", "FREQ=DAILY;COUNT=1", "FREQ=WEEKLY",
     "FREQ=WEEKLY;BYDAY=MO", "FREQ=WEEKLY;BYDAY=SA,SU", "FREQ=FORTNIGHTLY", NoRule}
AnchorDates == {NoDate, 1, 6}
StoredOccurrences == {NoDt, Midnight(5), Midnight(6), Dt(8, 1)}
EndDates == {NoDate, 8}
Horizons == {6, 8, 12}

Templates ==
    {Template(r, a, n, e, s) : r \in RuleStrings, a \in AnchorDates,
         n \in StoredOccurrences, e \in EndDates, s \in BOOLEAN}

SiblingTemplates ==
    {Template("FREQ=FORTNIGHTLY", 1, Midnight(5), NoDate, FALSE),
     Template("FREQ=DAILY", 1, Midnight(5), NoDate, TRUE)}

TemplateTables ==
    UNION { { [i \in 1..n |-> [(IF i = 1 THEN first ELSE rest[i]) EXCEPT !.id = i]] :
                 first \in Templates, rest \in [1..n -> SiblingTemplates] }
            : n \in 1..MaxTemplates }

(* weekly templates, anchored on a Monday or on a Saturday, whose stored   *)
(* next occurrence is a Monday or a Saturday; horizons three and four weeks *)
(* after day 1                                                              *)
WeeklyTemplates ==
    {Template(r, a, n, NoDate, s) : r \in {"FREQ=WEEKLY;BYDAY=MO", "FREQ=WEEKLY"},
         a \in {1, 6}, n \in {Midnight(1), Midnight(6)}, s \in BOOLEAN}

WeeklyTables ==
    UNION { { [i \in 1..n |-> [f[i] EXCEPT !.id = i]] :
                 f \in [1..n -> WeeklyTemplates] }
            : n \in 1..MaxTemplates }

WeeklyHorizons == {22, 29}

(* templates for a store that may fail: a malformed rule, no rule, and     *)
(* rules that expand, with and without an anchor                            *)
FaultTemplates ==
    {Template("FREQ=FORTNIGHTLY", 1, Midnight(5), NoDate, FALSE),
     Template(NoRule, 1, Midnight(5), NoDate, FALSE),
     Template("FREQ=DAILY", 1, Midnight(5), NoDate, TRUE),
     Template("FREQ=WEEKLY;BYDAY=MO", 1, Midnight(1), 8, FALSE),
     Template("FREQ=DAILY;INTERVAL=2", NoDate, Midnight(6), NoDate, FALSE)}

FaultTables ==
    UNION { { [i \in 1..n |-> [rows[i] EXCEPT !.id = i]] :
                 rows \in [1..n -> FaultTemplates] }
            : n \in 2..MaxTemplates }

IdleRecur ==
    /\ db_tasks = <<>>
    /\ clock = Dt(LastClockDay, 1)
    /\ call = IdleCall
    /\ returns = <<>>

-----------------------------------------------------------------------------
(* recurring.py, request by request: concurrent expansions of one          *)
(* template.  Every request to the store is a step of its own, so that     *)
(* requests of two expansions interleave and any write may raise.          *)

(* two requests that run generate_recurring_instances at the same time *)
Expanders == {1, 2}

NoFailure == [request |-> "none", instance_id |-> NoId, instance_date |-> NoDate]

IdleExpander ==
    [pc |-> "idle", up_to_date |-> NoDate, recurring_task |-> NoRow,
     dtstart |-> NoDt, current |-> NoDate, instance_id |-> NoId,
     subtasks |-> 0, created |-> <<>>, raised |-> NoFailure]

(* crud.log_activity is a coroutine function (async def) that every caller *)
(* calls without await: the call builds a coroutine object that is never   *)
(* run, so the insert into activity_log is never sent.                      *)
log_activity(log, entry) == log

LogEntry(entity_id, action_type) ==
    [entity_id |-> entity_id, action_type |-> action_type]

(* the subtasks of a task, as create_recurring_instance selects them *)
SubtaskRowsOf(table, task_id) ==
    {i \in 1..Len(table) : table[i].task_id = task_id}

(* generate_recurring_instances up to the loop of the selected template:   *)
(* the select, then the rule and the cursor of generate_instances_for_task *)
StartExpansion(e, up_to_date) ==
    /\ expanders[e].pc = "idle"
    /\ LET result_data == SelectCandidates(db_tasks, up_to_date)
           row == Head(result_data)
       IN  expanders' = [expanders EXCEPT ![e] =
               IF result_data = <<>>
                  THEN [IdleExpander EXCEPT !.pc = "returned",
                                            !.up_to_date = up_to_date]
               ELSE IF row.recurrence_rule = NoRule
                         \/ rrulestr(row.recurrence_rule) = ParseError
                  THEN [IdleExpander EXCEPT !.pc = "returned",
                                            !.up_to_date = up_to_date]
               ELSE [IdleExpander EXCEPT
                        !.pc = "while",
                        !.up_to_date = up_to_date,
                        !.recurring_task = row,
                        !.dtstart = IF row.recurrence_anchor_date # NoDate
                                        THEN Midnight(row.recurrence_anchor_date)
                                        ELSE clock,
                        !.current = IF row.next_occurrence_at # NoDt
                                        THEN row.next_occurrence_at.date
                                        ELSE clock.date]]
    /\ UNCHANGED <<recurVars, db_subtasks, activity_log>>
    /\ UNCHANGED <<rankVars, hubVars, matchVars, viewVars, calVars>>

(* the head of the while loop: the horizon, the end date, the weekend skip *)
TestLoop(e) ==
    /\ expanders[e].pc = "while"
    /\ LET c == expanders[e]
       IN  expanders' = [expanders EXCEPT ![e] =
               IF ~InLoop(c) THEN [c EXCEPT !.pc = "update"]
               ELSE IF c.recurring_task.recurrence_skip_weekends
                           /\ IsWeekend(c.current)
                  THEN [c EXCEPT !.current = @ + (7 - Weekday(@))]
               ELSE [c EXCEPT !.pc = "check", !.instance_id = NoId]]
    /\ UNCHANGED <<recurVars, db_subtasks, activity_log>>
    /\ UNCHANGED <<rankVars, hubVars, matchVars, viewVars, calVars>>

(* the select of an instance with this parent and this due date *)
CheckExisting(e) ==
    /\ expanders[e].pc = "check"
    /\ LET c == expanders[e]
           existing == InstanceExists(db_tasks, c.recurring_task.id, c.current)
       IN  expanders' = [expanders EXCEPT ![e].pc =
                            IF existing THEN "after" ELSE "insert"]
    /\ UNCHANGED <<recurVars, db_subtasks, activity_log>>
    /\ UNCHANGED <<rankVars, hubVars, matchVars, viewVars, calVars>>

(* create_recurring_instance: the parent's subtasks are selected, then     *)
(* crud.create_task inserts the task row, which has no parent link yet      *)
InsertInstance(e) ==
    /\ expanders[e].pc = "insert"
    /\ Len(db_tasks) < MaxRows
    /\ LET c == expanders[e]
           new_id == Len(db_tasks) + 1
           subtasks == Cardinality(SubtaskRowsOf(db_subtasks, c.recurring_task.id))
       IN  /\ db_tasks' = Append(db_tasks,
                   [Instance(new_id, c.recurring_task, c.current)
                        EXCEPT !.parent_recurring_task_id = NoId])
           /\ expanders' = [expanders EXCEPT ![e] =
                   [c EXCEPT !.instance_id = new_id, !.subtasks = subtasks,
                             !.pc = IF subtasks = 0 THEN "link" ELSE "subtasks"]]
    /\ UNCHANGED <<clock, call, returns, db_subtasks, activity_log>>
    /\ UNCHANGED <<rankVars, hubVars, matchVars, viewVars, calVars>>

(* crud.create_task: one subtask insert, status NOT_STARTED *)
InsertInstanceSubtask(e) ==
    /\ expanders[e].pc = "subtasks"
    /\ LET c == expanders[e]
       IN  /\ db_subtasks' = Append(db_subtasks,
                   [task_id |-> c.instance_id, status |-> "NOT_STARTED"])
           /\ expanders' = [expanders EXCEPT ![e] =
                   [c EXCEPT !.subtasks = @ - 1,
                             !.pc = IF c.subtasks = 1 THEN "link" ELSE @]]
    /\ UNCHANGED <<recurVars, activity_log>>
    /\ UNCHANGED <<rankVars, hubVars, matchVars, viewVars, calVars>>

(* the end of crud.create_task (log_activity CREATED), the update that     *)
(* links the row to its parent, log_activity RECURRENCE_GENERATED, and     *)
(* created.append(instance)                                                 *)
LinkToParent(e) ==
    /\ expanders[e].pc = "link"
    /\ LET c == expanders[e]
       IN  /\ db_tasks' = [db_tasks EXCEPT ![c.instance_id].parent_recurring_task_id
                                               = c.recurring_task.id]
           /\ activity_log' =
                  log_activity(log_activity(activity_log,
                                            LogEntry(c.instance_id, "CREATED")),
                               LogEntry(c.instance_id, "RECURRENCE_GENERATED"))
           /\ expanders' = [expanders EXCEPT ![e] =
                   [c EXCEPT !.created = Append(@, c.instance_id), !.pc = "after"]]
    /\ UNCHANGED <<clock, call, returns, db_subtasks>>
    /\ UNCHANGED <<rankVars, hubVars, matchVars, viewVars, calVars>>

(* rule.after(midnight of the cursor): the next cursor, or the loop ends *)
NextOccurrence(e) ==
    /\ expanders[e].pc = "after"
    /\ LET c == expanders[e]
           next_dt == RuleAfter(rrulestr(c.recurring_task.recurrence_rule),
                                c.dtstart, Midnight(c.current))
       IN  expanders' = [expanders EXCEPT ![e] =
               IF next_dt = NoDt THEN [c EXCEPT !.pc = "update"]
               ELSE [c EXCEPT !.pc = "while", !.current = next_dt.date]]
    /\ UNCHANGED <<recurVars, db_subtasks, activity_log>>
    /\ UNCHANGED <<rankVars, hubVars, matchVars, viewVars, calVars>>

(* after the loop: next_occurrence_at is stored and the call returns *)
StoreNextOccurrence(e) ==
    /\ expanders[e].pc = "update"
    /\ LET c == expanders[e]
           next_dt == RuleAfter(rrulestr(c.recurring_task.recurrence_rule),
                                c.dtstart, Midnight(c.up_to_date))
       IN  db_tasks' = IF next_dt = NoDt THEN db_tasks
                       ELSE [db_tasks EXCEPT
                                ![c.recurring_task.id].next_occurrence_at = next_dt]
    /\ expanders' = [expanders EXCEPT ![e].pc = "returned"]
    /\ UNCHANGED <<clock, call, returns, db_subtasks, activity_log>>
    /\ UNCHANGED <<rankVars, hubVars, matchVars, viewVars, calVars>>

(* a write of create_recurring_instance raises (a duplicate key, a lost    *)
(* connection): nothing catches it before the except clause of             *)
(* generate_recurring_instances, which prints it.  What was written stays   *)
(* written; the template's created list and its next_occurrence_at update   *)
(* are lost with the frame.                                                 *)
RequestRaises(e) ==
    /\ expanders[e].pc \in {"insert", "subtasks", "link"}
    /\ LET c == expanders[e]
       IN  expanders' = [expanders EXCEPT ![e] =
               [c EXCEPT !.pc = "returned", !.created = <<>>,
                         !.raised = [request |-> c.pc,
                                     instance_id |-> c.instance_id,
                                     instance_date |-> c.current]]]
    /\ UNCHANGED <<recurVars, db_subtasks, activity_log>>
    /\ UNCHANGED <<rankVars, hubVars, matchVars, viewVars, calVars>>

(* one template with id 1 and the subtasks it has *)
StepTemplates ==
    {Template("FREQ=DAILY", 1, Midnight(5), NoDate, FALSE),
     Template("FREQ=DAILY", 1, Midnight(5), NoDate, TRUE),
     Template("FREQ=WEEKLY;BYDAY=MO", 1, Midnight(1), 8, FALSE)}

StepHorizons == {5, 8}

TemplateSubtasks == {<<>>, <<[task_id |-> 1, status |-> "COMPLETED"]>>}

IdleStep ==
    /\ expanders = [e \in Expanders |-> IdleExpander]
    /\ db_subtasks = <<>>
    /\ activity_log = <<>>

-----------------------------------------------------------------------------
(* crud.py and webhooks.py: the hub's task and subtask store *)

ActorType == {"MANUAL", "N8N", "SYSTEM"}

NoKey == "NULL"          \* idempotency_key / source_id that is NULL / None
NoRank == -1             \* SubtaskCreate.order_rank that is None

(* the task columns the hub operations write; the other scalar columns     *)
(* (description, priority, ...) are handled like title                      *)
TaskFields == {"title", "status", "due_date", "start_date", "tags", "labels"}

Store(t, st) == [tasks |-> t, subtasks |-> st]

(* what a handler leaves behind: its writes, and for the webhook the       *)
(* payload's items, which of them the store refused, the tally and the      *)
(* success flag of the response, and the payload and flag of the operation  *)
(* before it                                                                *)
NoRequest == [request |-> <<>>, success |-> TRUE]

NoWrites == [op |-> "none", writes |-> <<>>,
             results |-> [created |-> 0, updated |-> 0, errors |-> <<>>],
             success |-> TRUE, request |-> <<>>, raised |-> <<>>,
             prior |-> NoRequest]

NoTaskRow ==
    [id |-> NoId, title |-> "", status |-> "NOT_STARTED", due_date |-> NoDate,
     start_date |-> NoDate, tags |-> {}, labels |-> {},
     idempotency_key |-> NoKey, source_type |-> "MANUAL", source_id |-> NoKey,
     manually_edited |-> FALSE, manual_fields |-> {},
     last_edited_source |-> "MANUAL", completed_at |-> FALSE]

EmptyData == [f \in {} |-> NoDate]

Restrict(data, keys) == [f \in keys |-> data[f]]

(* db.table(...).update(data).eq("id", ...): the columns in data change *)
ApplyData(row, data) ==
    [f \in DOMAIN row |-> IF f \in DOMAIN data THEN data[f] ELSE row[f]]

(* one entry of the write log: the row before and after, and what came in *)
Write(op, actor, id, before, after, incoming) ==
    [op |-> op, actor |-> actor, task_id |-> id, before |-> before,
     after |-> after, incoming |-> incoming]

(* get_subtasks: the rows of the table with that task_id.  A subtask id is *)
(* the row's position, so a deleted row stays in place, marked deleted.    *)
SubtasksOf(store, task_id) ==
    {i \in 1..Len(store.subtasks) :
        /\ ~store.subtasks[i].deleted
        /\ store.subtasks[i].task_id = task_id}

(* create_task: insert the row, then its subtasks with order_rank or i *)
create_task(store, t, actor) ==
    LET task_id == Len(store.tasks) + 1
        base == Len(store.subtasks)
        row == [NoTaskRow EXCEPT
                   !.id = task_id, !.title = t.title, !.status = t.status,
                   !.due_date = t.due_date, !.start_date = t.start_date,
                   !.tags = t.tags, !.labels = t.labels,
                   !.idempotency_key = t.idempotency_key,
                   !.source_type = t.source_type, !.source_id = t.source_id,
                   !.last_edited_source =
                       IF actor = "MANUAL" THEN "MANUAL"
                       ELSE NoTaskRow.last_edited_source]
        subs == [i \in 1..Len(t.subtasks) |->
                    [id |-> base + i, task_id |-> task_id, deleted |-> FALSE,
                     status |-> t.subtasks[i].status,
                     order_rank |-> IF t.subtasks[i].order_rank \in {NoRank, 0}
                                        THEN i - 1
                                        ELSE t.subtasks[i].order_rank]]
    IN  Store(Append(store.tasks, row), store.subtasks \o subs)

(* update_task: updates maps the set, non-None fields to their values *)
UpdateData(current, updates, actor, respect_manual_protection) ==
    IF respect_manual_protection /\ actor = "N8N" /\ current.manually_edited
        THEN Restrict(updates, DOMAIN updates \ current.manual_fields)
        ELSE updates

NewManualFieldsReplaced(current, update_data) == DOMAIN update_data

(* new_manual_fields: set(current.manual_fields + update_data.keys()) *)
NewManualFields(current, update_data) ==
    current.manual_fields \cup DOMAIN update_data

update_task(store, task_id, updates, actor, respect_manual_protection) ==
    IF task_id \notin 1..Len(store.tasks) THEN store
    ELSE
        LET current == store.tasks[task_id]
            update_data == UpdateData(current, updates, actor,
                                      respect_manual_protection)
            tracked ==
                IF actor = "MANUAL"
                    THEN [last_edited_source |-> "MANUAL",
                          manually_edited |-> TRUE,
                          manual_fields |->
                              NewManualFields(current, update_data)]
                    ELSE EmptyData
            completion ==
                IF "status" \in DOMAIN updates /\ updates["status"] = "COMPLETED"
                       /\ current.status # "COMPLETED"
                    THEN [completed_at |-> TRUE]
                    ELSE EmptyData
        IN  IF DOMAIN update_data = {} THEN store
            ELSE [store EXCEPT !.tasks[task_id] =
                     ApplyData(current, completion @@ tracked @@ update_data)]

Incomplete(store, task_id) ==
    {i \in SubtasksOf(store, task_id) : store.subtasks[i].status # "COMPLETED"}

(* complete_task: refused while a subtask is not COMPLETED *)
complete_task(store, task_id, actor) ==
    IF task_id \notin 1..Len(store.tasks) THEN store
    ELSE IF Incomplete(store, task_id) # {} THEN store
    ELSE update_task(store, task_id, [status |-> "COMPLETED"], actor, TRUE)

(* create_subtask: order_rank or max_rank + 1 *)
create_subtask(store, task_id, subtask) ==
    LET existing == SubtasksOf(store, task_id)
        ranks == {store.subtasks[i].order_rank : i \in existing}
        max_rank == IF ranks = {} THEN -1
                    ELSE CHOOSE r \in ranks : \A q \in ranks : q <= r
        row == [id |-> Len(store.subtasks) + 1, task_id |-> task_id,
                deleted |-> FALSE, status |-> subtask.status,
                order_rank |-> IF subtask.order_rank \in {NoRank, 0}
                                   THEN max_rank + 1
                                   ELSE subtask.order_rank]
    IN  [store EXCEPT !.subtasks = Append(@, row)]

(* update_subtask *)
Stored(store, subtask_id) ==
    /\ subtask_id \in 1..Len(store.subtasks)
    /\ ~store.subtasks[subtask_id].deleted

update_subtask(store, subtask_id, updates) ==
    IF ~Stored(store, subtask_id) THEN store
    ELSE [store EXCEPT !.subtasks[subtask_id] = ApplyData(@, updates)]

(* delete_subtask: delete().eq("id", subtask_id) *)
delete_subtask(store, subtask_id) ==
    IF ~Stored(store, subtask_id) THEN store
    ELSE [store EXCEPT !.subtasks[subtask_id].deleted = TRUE]

(* reorder_subtasks: for i, subtask_id in enumerate(subtask_ids), the row  *)
(* with that id gets order_rank i; task_id only selects the rows returned. *)
(* The updates are applied one after the other, i counting from 0.         *)
RECURSIVE ReorderFrom(_, _, _)
ReorderFrom(store, subtask_ids, i) ==
    IF subtask_ids = <<>> THEN store
    ELSE LET subtask_id == Head(subtask_ids)
             next == IF ~Stored(store, subtask_id) THEN store
                     ELSE [store EXCEPT !.subtasks[subtask_id].order_rank = i]
         IN  ReorderFrom(next, Tail(subtask_ids), i + 1)

reorder_subtasks(store, task_id, subtask_ids) ==
    ReorderFrom(store, subtask_ids, 0)

(* upsert_tasks: the lookup by idempotency_key, then by source *)
FindExisting(rows, item) ==
    LET byKey == {i \in 1..Len(rows) :
                     rows[i].idempotency_key = item.idempotency_key}
        bySource == {i \in 1..Len(rows) :
                        /\ rows[i].source_type = item.source_type
                        /\ rows[i].source_id = item.source_id}
        first(S) == CHOOSE i \in S : \A j \in S : i <= j
    IN  IF item.idempotency_key \notin {NoKey, ""} /\ byKey # {}
            THEN first(byKey)
        ELSE IF item.source_id \notin {NoKey, ""} /\ bySource # {}
            THEN first(bySource)
        ELSE NoId

(* the update of a manually edited task: unprotected, non-None fields of   *)
(* field_mapping, and tags / labels as a union                              *)
ProtectedUpdate(existing, item) ==
    LET protected_fields == existing.manual_fields
        mapped == {"title", "status"}
                      \cup (IF item.due_date # NoDate THEN {"due_date"} ELSE {})
        keys == (mapped \ protected_fields)
                    \cup (IF item.tags # {} THEN {"tags"} ELSE {})
                    \cup (IF item.labels # {} THEN {"labels"} ELSE {})
    IN  [f \in keys |->
            CASE f = "tags" -> existing.tags \cup item.tags
              [] f = "labels" -> existing.labels \cup item.labels
              [] OTHER -> item[f]]

(* the update of a task that was never manually edited *)
FullUpdate(item) == Restrict(item, TaskFields)

UpsertDataUnprotected(existing, item) == FullUpdate(item)

UpsertData(existing, item) ==
    IF existing.manually_edited THEN ProtectedUpdate(existing, item)
                                ELSE FullUpdate(item)

(* the fields of a webhook item that carry a value *)
Incoming(item) ==
    Restrict(item, {f \in TaskFields :
                       ~(f \in {"due_date", "start_date"} /\ item[f] = NoDate)})

(* one item of the batch; acc is the store, the write log and the tally.   *)
(* When the store refuses the item's first request (raises), the except     *)
(* clause records the item's key and the loop goes on.                      *)
UpsertOne(acc, item) ==
    LET existing_id == FindExisting(acc.store.tasks, item)
    IN  IF existing_id # NoId
        THEN LET existing == acc.store.tasks[existing_id]
                 data == [last_edited_source |-> "N8N"]
                             @@ UpsertData(existing, item)
                 after == ApplyData(existing, data)
             IN  [store |-> [acc.store EXCEPT !.tasks[existing_id] = after],
                  writes |-> Append(acc.writes,
                      Write("upsert_tasks", "N8N", existing_id, existing, after,
                            Incoming(item))),
                  results |-> [acc.results EXCEPT !.updated = @ + 1]]
        ELSE LET created == create_task(acc.store, item, "N8N")
                 new_id == Len(created.tasks)
             IN  [store |-> created,
                  writes |-> Append(acc.writes,
                      Write("upsert_tasks", "N8N", new_id, NoTaskRow,
                            created.tasks[new_id], Incoming(item))),
                  results |-> [acc.results EXCEPT !.created = @ + 1]]

UpsertItemUncounted(acc, item, raises) ==
    IF raises THEN acc ELSE UpsertOne(acc, item)

(* the try / except around one item *)
UpsertItem(acc, item, raises) ==
    IF raises
        THEN [acc EXCEPT !.results.errors = Append(@, item.idempotency_key)]
        ELSE UpsertOne(acc, item)

RECURSIVE upsert_tasks(_, _, _)
upsert_tasks(acc, items, raised) ==
    IF items = <<>> THEN acc
    ELSE upsert_tasks(UpsertItem(acc, Head(items), Head(raised)),
                      Tail(items), Tail(raised))

(* the hub's operations as steps *)

HubStore == Store(task_rows, subtask_rows)

Commit(store, entry) ==
    /\ task_rows' = store.tasks
    /\ subtask_rows' = store.subtasks
    /\ last' = entry
    /\ ops' = ops + 1
    /\ UNCHANGED <<rankVars, recurVars, matchVars, stepVars, viewVars, calVars>>

OneWrite(op, actor, id, before, store, incoming) ==
    [NoWrites EXCEPT !.op = op,
        !.writes = <<Write(op, actor, id, before, store.tasks[id], incoming)>>]

(* POST /tasks: router.create_task, actor MANUAL *)
CreateTask(t) ==
    /\ ops < MaxOps
    /\ Len(task_rows) < MaxHubTasks
    /\ Len(subtask_rows) + Len(t.subtasks) <= MaxSubtasks
    /\ LET store == create_task(HubStore, t, "MANUAL")
       IN  Commit(store, OneWrite("create_task", "MANUAL", Len(store.tasks),
                                  NoTaskRow, store, Incoming(t)))

(* crud.update_task, with the default respect_manual_protection *)
UpdateTask(task_id, updates, actor) ==
    /\ ops < MaxOps
    /\ task_id \in 1..Len(task_rows)
    /\ LET store == update_task(HubStore, task_id, updates, actor, TRUE)
       IN  Commit(store, OneWrite("update_task", actor, task_id,
                                  task_rows[task_id], store, updates))

(* POST /tasks/{id}/status: router.change_task_status *)
ChangeTaskStatus(task_id, status) ==
    /\ ops < MaxOps
    /\ task_id \in 1..Len(task_rows)
    /\ LET updates == [status |-> status]
           store == update_task(HubStore, task_id, updates, "MANUAL", TRUE)
       IN  Commit(store, OneWrite("change_task_status", "MANUAL", task_id,
                                  task_rows[task_id], store, updates))

(* POST /tasks/{id}/complete: crud.complete_task *)
CompleteTask(task_id) ==
    /\ ops < MaxOps
    /\ task_id \in 1..Len(task_rows)
    /\ LET store == complete_task(HubStore, task_id, "MANUAL")
       IN  Commit(store, OneWrite("complete_task", "MANUAL", task_id,
                                  task_rows[task_id], store,
                                  [status |-> "COMPLETED"]))

(* POST /tasks/{id}/subtasks: crud.create_subtask *)
CreateSubtask(task_id, subtask) ==
    /\ ops < MaxOps
    /\ task_id \in 1..Len(task_rows)
    /\ Len(subtask_rows) < MaxSubtasks
    /\ Commit(create_subtask(HubStore, task_id, subtask),
              [NoWrites EXCEPT !.op = "create_subtask"])

(* PATCH /subtasks/{id}: crud.update_subtask *)
UpdateSubtask(subtask_id, updates) ==
    /\ ops < MaxOps
    /\ subtask_id \in 1..Len(subtask_rows)
    /\ Commit(update_subtask(HubStore, subtask_id, updates),
              [NoWrites EXCEPT !.op = "update_subtask"])

(* DELETE /subtasks/{id}: crud.delete_subtask *)
DeleteSubtask(subtask_id) ==
    /\ ops < MaxOps
    /\ subtask_id \in 1..Len(subtask_rows)
    /\ Commit(delete_subtask(HubStore, subtask_id),
              [NoWrites EXCEPT !.op = "delete_subtask"])

(* POST /tasks/{id}/subtasks/reorder: crud.reorder_subtasks *)
ReorderSubtasks(task_id, subtask_ids) ==
    /\ ops < MaxOps
    /\ task_id \in 1..Len(task_rows)
    /\ \A i \in 1..Len(subtask_ids) : subtask_ids[i] \in 1..Len(subtask_rows)
    /\ Commit(reorder_subtasks(HubStore, task_id, subtask_ids),
              [NoWrites EXCEPT !.op = "reorder_subtasks"])

(* POST /webhooks/tasks: webhooks.upsert_tasks on the payload's items *)
UpsertTasks(items, raised) ==
    /\ ops < MaxOps
    /\ LET out == upsert_tasks([store |-> HubStore, writes |-> <<>>,
                                results |-> NoWrites.results], items, raised)
       IN  /\ Len(out.store.tasks) <= MaxHubTasks
           /\ Len(out.store.subtasks) <= MaxSubtasks
           /\ Commit(out.store,
                     [op |-> "upsert_tasks", writes |-> out.writes,
                      results |-> out.results,
                      success |-> (Len(out.results.errors) = 0),
                      request |-> items, raised |-> raised,
                      prior |-> [request |-> last.request,
                                 success |-> last.success]])

(* the inputs *)
SubtaskStatus == {"NOT_STARTED", "COMPLETED"}

SubtaskCreates == [status : SubtaskStatus, order_rank : {NoRank}]

SubtaskLists == {<<>>} \cup {<<s>> : s \in SubtaskCreates}

(* SubtaskCreate with order_rank left out (None) or given by the client *)
RankedSubtaskCreates == [status : {"NOT_STARTED"}, order_rank : {NoRank, 1}]

RankedSubtaskLists ==
    {<<>>} \cup {<<s>> : s \in RankedSubtaskCreates}
        \cup {<<s, t>> : s \in RankedSubtaskCreates, t \in RankedSubtaskCreates}

(* the body of the reorder request: a list of distinct subtask ids *)
SubtaskIdLists ==
    {<<a>> : a \in 1..MaxSubtasks}
        \cup ({<<a, b>> : a, b \in 1..MaxSubtasks}
                \ {<<a, a>> : a \in 1..MaxSubtasks})

(* a TaskCreate of the UI: no idempotency key, no source id *)
TaskCreates ==
    [title : {"A"}, status : {"NOT_STARTED", "COMPLETED"},
     due_date : {NoDate}, start_date : {NoDate}, tags : {{"a"}},
     labels : {{}}, idempotency_key : {NoKey}, source_type : {"MANUAL"},
     source_id : {NoKey}, subtasks : SubtaskLists]

(* a TaskUpdate after model_dump(exclude_unset, exclude_none) *)
TaskUpdates ==
    [title : {"B"}] \cup [status : {"IN_PROGRESS", "COMPLETED"}]
        \cup [due_date : {6}] \cup [start_date : {3}] \cup [tags : {{"c"}}]
        \cup [title : {"B"}, due_date : {6}]

(* a WebhookTask turned into a TaskCreate: it comes with both dates or     *)
(* with neither, and with labels only if it has tags                        *)
WebhookTasks ==
    {w \in [title : {"W"}, status : {"NOT_STARTED", "COMPLETED"},
            due_date : {NoDate, 7}, start_date : {NoDate, 4},
            tags : {{}, {"w"}}, labels : {{}, {"l"}},
            idempotency_key : {"", "k1"}, source_type : {"N8N"},
            source_id : {"", "s1"}, subtasks : {<<>>}] :
        /\ (w.due_date = NoDate) = (w.start_date = NoDate)
        /\ w.labels # {} => w.tags # {}
        /\ w.source_id = "" =>
               (w.status = "NOT_STARTED" /\ w.due_date = NoDate /\ w.tags = {})}

(* the payloads: one item, or the same plain item twice *)
Payloads ==
    {<<w>> : w \in WebhookTasks}
        \cup {<<w, w>> : w \in {x \in WebhookTasks :
                                   /\ x.status = "NOT_STARTED"
                                   /\ x.due_date = NoDate
                                   /\ x.labels = {}}}

NoneRaised(items) == [i \in 1..Len(items) |-> FALSE]

(* the items of the batches that are submitted, refused and submitted      *)
(* again: with a key and a source id, with one of the two empty, with both  *)
(* empty                                                                    *)
BatchItems ==
    [title : {"W"}, status : {"NOT_STARTED"}, due_date : {NoDate},
     start_date : {NoDate}, tags : {{"w"}}, labels : {{}},
     idempotency_key : {"", "k1"}, source_type : {"N8N"},
     source_id : {"", "s1"}, subtasks : {<<>>}]

Batches == {<<w>> : w \in BatchItems} \cup {<<v, w>> : v, w \in BatchItems}

(* items that all carry an idempotency key and a source id: two keys, two *)
(* source ids, in batches of one or two                                    *)
KeyedItems ==
    [title : {"W"}, status : {"NOT_STARTED"}, due_date : {NoDate},
     start_date : {NoDate}, tags : {{}, {"w"}}, labels : {{}},
     idempotency_key : {"k1", "k2"}, source_type : {"N8N"},
     source_id : {"s1", "s2"}, subtasks : {<<>>}]

KeyedBatches == {<<w>> : w \in KeyedItems} \cup {<<v, w>> : v, w \in KeyedItems}

IdleHub ==
    /\ task_rows = <<>>
    /\ subtask_rows = <<>>
    /\ last = NoWrites
    /\ ops = 0

-----------------------------------------------------------------------------
(* webhooks.py: match_event_to_client.  A string is a sequence of          *)
(* characters, so that lower(), split('@') and the substring test are       *)
(* computed.                                                                *)

Lower(c) ==
    CASE c = "A" -> "a" [] c = "B" -> "b" [] c = "X" -> "x" [] OTHER -> c

(* str.lower() *)
LowerStr(str) == [i \in 1..Len(str) |-> Lower(str[i])]

(* sub in str *)
Contains(sub, str) ==
    \E i \in 0..(Len(str) - Len(sub)) : SubSeq(str, i + 1, i + Len(sub)) = sub

AtSigns(email) == {i \in 1..Len(email) : email[i] = "@"}

(* email.split('@')[1]: what stands between the first '@' and the next     *)
SplitDomain(email) ==
    LET first == CHOOSE i \in AtSigns(email) : \A j \in AtSigns(email) : i <= j
        later == {i \in AtSigns(email) : i > first}
        stop == IF later = {} THEN Len(email) + 1
                ELSE CHOOSE i \in later : \A j \in later : i <= j
    IN  SubSeq(email, first + 1, stop - 1)

NoClientId == "None"
NotMatched == [client_id |-> "pending", confidence |-> -1, method |-> "pending"]
NoMatch == [client_id |-> NoClientId, confidence |-> 0, method |-> "None"]

(* a for loop that returns at the first element that passes its test: the *)
(* least of the positions that pass, 0 if none does                         *)
FirstIndex(passing) ==
    IF passing = {} THEN 0
    ELSE CHOOSE i \in passing : \A j \in passing : i <= j

(* 1. the first override for this event id *)
OverrideMatch(r, gcal_event_id) ==
    FirstIndex({i \in 1..Len(r.overrides) :
                    r.overrides[i].gcal_event_id = gcal_event_id})

(* 2. the first attendee whose domain some rule has, and its first rule *)
DomainRuleFor(r, attendee) ==
    IF AtSigns(attendee.email) = {} THEN 0
    ELSE FirstIndex({i \in 1..Len(r.domains) :
                        LowerStr(r.domains[i].domain)
                            = LowerStr(SplitDomain(attendee.email))})

DomainMatch(r, attendees) ==
    LET a == FirstIndex({i \in 1..Len(attendees) :
                            DomainRuleFor(r, attendees[i]) # 0})
    IN  IF a = 0 THEN 0 ELSE DomainRuleFor(r, attendees[a])

(* 3. the first keyword rule whose keyword is in the title *)
KeywordMatch(r, title) ==
    FirstIndex({i \in 1..Len(r.keywords) :
                    Contains(LowerStr(r.keywords[i].keyword), LowerStr(title))})

MatchKeywordBeforeDomain(r, title, attendees, gcal_event_id) ==
    LET o == OverrideMatch(r, gcal_event_id)
        d == DomainMatch(r, attendees)
        k == KeywordMatch(r, title)
    IN  IF o # 0 THEN [client_id |-> r.overrides[o].client_id,
                       confidence |-> 100, method |-> "override"]
        ELSE IF k # 0 THEN [client_id |-> r.keywords[k].client_id,
                            confidence |-> 70, method |-> "keyword"]
        ELSE IF d # 0 THEN [client_id |-> r.domains[d].client_id,
                            confidence |-> 90, method |-> "domain"]
        ELSE NoMatch

match_event_to_client(r, title, attendees, gcal_event_id) ==
    LET o == OverrideMatch(r, gcal_event_id)
        d == DomainMatch(r, attendees)
        k == KeywordMatch(r, title)
    IN  IF o # 0 THEN [client_id |-> r.overrides[o].client_id,
                       confidence |-> 100, method |-> "override"]
        ELSE IF d # 0 THEN [client_id |-> r.domains[d].client_id,
                            confidence |-> 90, method |-> "domain"]
        ELSE IF k # 0 THEN [client_id |-> r.keywords[k].client_id,
                            confidence |-> 70, method |-> "keyword"]
        ELSE NoMatch

MatchEventToClient ==
    /\ matched = NotMatched
    /\ matched' = match_event_to_client(rules, event_data.title,
                                        event_data.attendees,
                                        event_data.gcal_event_id)
    /\ UNCHANGED <<rules, event_data>>
    /\ UNCHANGED <<rankVars, recurVars, hubVars, stepVars, viewVars, calVars>>

(* the inputs *)
Override(e, c) == [gcal_event_id |-> e, client_id |-> c]
DomainRule(d, c) == [domain |-> d, client_id |-> c]
KeywordRule(k, c) == [keyword |-> k, client_id |-> c]
Attendee(e) == [email |-> e]

OverrideLists == {<<>>, <<Override("e1", "c1")>>,
                  <<Override("e2", "c2"), Override("e1", "c1")>>}
DomainLists == {<<>>, <<DomainRule(<<"X">>, "c2")>>,
                <<DomainRule(<<"b">>, "c3"), DomainRule(<<"x">>, "c2")>>}
KeywordLists == {<<>>, <<KeywordRule(<<"A", "b">>, "c3")>>,
                 <<KeywordRule(<<"x">>, "c1"), KeywordRule(<<"b">>, "c3")>>}

RuleSets == [overrides : OverrideLists, domains : DomainLists,
             keywords : KeywordLists]

Titles == {<<>>, <<"a", "B", "a">>, <<"b", "a">>, <<"X", "a">>}
Emails == {<<"a", "@", "x">>, <<"a", "@", "B">>, <<"a">>, <<"x", "@", "a">>}
AttendeeLists ==
    {<<>>} \cup {<<Attendee(e)>> : e \in Emails}
           \cup {<<Attendee(e), Attendee(f)>> : e, f \in Emails}

Events == [title : Titles, attendees : AttendeeLists,
           gcal_event_id : {"e1", "e3"}]

IdleMatch ==
    /\ rules = [overrides |-> <<>>, domains |-> <<>>, keywords |-> <<>>]
    /\ event_data = [title |-> <<>>, attendees |-> <<>>, gcal_event_id |-> "e1"]
    /\ matched = NotMatched

-----------------------------------------------------------------------------
(* The ranking functions applied to one task *)

Today0 == 100

DueDates ==
    {NoDate} \cup ((Today0 - MaxOverdueDays)..(Today0 - MaxOverdueDays + 3))
             \cup ((Today0 - 2)..(Today0 + 4)) \cup {Today0 + 7, Today0 + 8}

CreatedDates == {Today0 - MaxAgeDays, Today0 - 10, Today0 - 1, Today0}

ClientWeights == {0, 7, 20}

Clients == {NoClient} \cup {Client(w) : w \in ClientWeights}

Tasks ==
    [id : {1}, pinned_today : BOOLEAN, priority : TaskPriority,
     status : TaskStatus, due_date : DueDates, client : Clients,
     created_at : CreatedDates, rank_score : {NoScore}]

-----------------------------------------------------------------------------
(* router.py: the view requests *)

NoView == [kind |-> "none", from |-> NoDate, up_to |-> NoDate, tasks |-> <<>>]

(* a row of the tasks table as the task handed to rank_tasks: instances    *)
(* carry the defaults of create_recurring_instance                          *)
LoadedTask(row, day) ==
    [id |-> row.id, pinned_today |-> FALSE, priority |-> "P2",
     status |-> row.status, due_date |-> row.due_date, client |-> NoClient,
     created_at |-> day, rank_score |-> NoScore]

(* crud.get_today_tasks: due today or overdue, not completed, not archived *)
get_today_tasks(table, day) ==
    LET rows == SelectSeq(table, LAMBDA row :
                    /\ row.due_date # NoDate
                    /\ row.due_date <= day
                    /\ row.status # "COMPLETED"
                    /\ ~row.archived)
    IN  [i \in 1..Len(rows) |-> LoadedTask(rows[i], day)]

(* crud.get_upcoming_tasks: due in the next N days *)
get_upcoming_tasks(table, days, day) ==
    LET rows == SelectSeq(table, LAMBDA row :
                    /\ row.due_date # NoDate
                    /\ row.due_date >= day
                    /\ row.due_date <= day + days
                    /\ row.status # "COMPLETED"
                    /\ ~row.archived)
    IN  [i \in 1..Len(rows) |-> LoadedTask(rows[i], day)]

(* GET /views/today: the tasks are loaded and ranked; the morning digest  *)
(* (digest.render_morning_digest) loads and ranks the same way              *)
GetTodayView(kind, day) ==
    /\ view' = [kind |-> kind, from |-> NoDate, up_to |-> day,
                tasks |-> rank_tasks(get_today_tasks(db_tasks, day),
                                     DefaultWeights, day, day)]
    /\ UNCHANGED <<rankVars, recurVars, hubVars, matchVars, stepVars, calVars>>

(* GET /views/upcoming *)
GetUpcomingView(days, day) ==
    /\ view' = [kind |-> "upcoming", from |-> day, up_to |-> day + days,
                tasks |-> rank_tasks(get_upcoming_tasks(db_tasks, days, day),
                                     DefaultWeights, day, day)]
    /\ UNCHANGED <<rankVars, recurVars, hubVars, matchVars, stepVars, calVars>>

(* the store behind the views: templates with an anchor date, alone or     *)
(* with the instance of day 5 that an earlier expansion left                *)
ViewTemplates ==
    {Template(r, a, n, e, s) :
         r \in {"FREQ=DAILY", "FREQ=WEEKLY;BYDAY=MO", "FREQ=WEEKLY;BYDAY=SA,SU"},
         a \in {1}, n \in {Midnight(5), Midnight(6), Midnight(8)},
         e \in EndDates, s \in BOOLEAN}

ViewTables ==
    {<<[t EXCEPT !.id = 1]>> : t \in ViewTemplates}
        \cup {<<[t EXCEPT !.id = 1], Instance(2, [t EXCEPT !.id = 1], 5)>> :
                 t \in ViewTemplates}

ViewDays == {5, 8}

ViewWindows == {1, 7}

IdleView == view = NoView

-----------------------------------------------------------------------------
(* crud.py and webhooks.py: calendar events *)

(* upsert_calendar_event: model_dump(exclude_unset=True) keeps every field *)
(* the caller passed, None included; the upsert on gcal_event_id writes     *)
(* them over the row with that id, or inserts a row                         *)
upsert_calendar_event(table, event) ==
    LET same == {i \in 1..Len(table) :
                    table[i].gcal_event_id = event.gcal_event_id}
    IN  IF same = {}
            THEN Append(table, [id |-> Len(table) + 1] @@ event)
            ELSE [i \in 1..Len(table) |->
                     IF i \in same THEN [id |-> i] @@ event ELSE table[i]]

(* map_event_to_client: the update of the row with that id *)
map_event_to_client(table, event_id, client_id, match_confidence) ==
    [i \in 1..Len(table) |->
        IF table[i].id = event_id
            THEN [table[i] EXCEPT !.client_id = client_id,
                                  !.match_confidence = match_confidence,
                                  !.match_method = "manual"]
            ELSE table[i]]

(* the CalendarEventCreate that upsert_calendar_events builds for one event *)
CalendarEventCreate(r, e) ==
    LET m == match_event_to_client(r, e.title, e.attendees, e.gcal_event_id)
    IN  [gcal_event_id |-> e.gcal_event_id, title |-> e.title,
         client_id |-> m.client_id, match_confidence |-> m.confidence,
         match_method |-> m.method]

RECURSIVE UpsertEach(_, _, _)
UpsertEach(table, r, events) ==
    IF events = <<>> THEN table
    ELSE UpsertEach(upsert_calendar_event(table, CalendarEventCreate(r, Head(events))),
                    r, Tail(events))

(* POST /webhooks/calendar/upsert *)
UpsertCalendarEvents(events) ==
    /\ calendar_events' = UpsertEach(calendar_events, rules, events)
    /\ UNCHANGED <<rankVars, recurVars, hubVars, matchVars, stepVars, viewVars>>

(* PATCH /calendar/{event_id}/client *)
MapEventToClient(event_id, client_id) ==
    /\ event_id \in 1..Len(calendar_events)
    /\ calendar_events' = map_event_to_client(calendar_events, event_id,
                                              client_id, 100)
    /\ UNCHANGED <<rankVars, recurVars, hubVars, matchVars, stepVars, viewVars>>

(* the inputs: events with and without a matching title and attendee, and  *)
(* the clients a person maps an event to                                    *)
CalendarEvents ==
    [title : {<<>>, <<"b", "a">>},
     attendees : {<<>>, <<Attendee(<<"a", "@", "x">>)>>},
     gcal_event_id : {"e1", "e3"}]

CalendarPayloads ==
    {<<e>> : e \in CalendarEvents}
        \cup {<<e, f>> : e, f \in {x \in CalendarEvents : x.attendees = <<>>}}

ManualClients == {"c1", "c4"}

IdleCalendar == calendar_events = <<>>

-----------------------------------------------------------------------------
(* Ranking specifications *)

IdleList == tasks = <<>> /\ ranked = <<>>

RankInit ==
    /\ weights \in WeightConfigs
    /\ today \in {Today0, Today0 + 1}
    /\ now = Today0
    /\ task \in Tasks
    /\ score = NoScore
    /\ breakdown = NoBreakdown
    /\ IdleList
    /\ IdleRecur
    /\ IdleHub
    /\ IdleStep
    /\ IdleView
    /\ IdleCalendar
    /\ IdleMatch

CalculateTaskRank ==
    /\ score = NoScore
    /\ score' = calculate_task_rank(task, weights, today, now)
    /\ UNCHANGED <<weights, today, now, task, breakdown, tasks, ranked>>
    /\ UNCHANGED <<recurVars, hubVars, matchVars, stepVars, viewVars, calVars>>

ExplainRank ==
    /\ breakdown = NoBreakdown
    /\ breakdown' = explain_rank(task, weights, today)
    /\ UNCHANGED <<weights, today, now, task, score, tasks, ranked>>
    /\ UNCHANGED <<recurVars, hubVars, matchVars, stepVars, viewVars, calVars>>

RankNext == CalculateTaskRank \/ ExplainRank

RankSpec == RankInit /\ [][RankNext]_vars

-----------------------------------------------------------------------------
(* rank_tasks applied to a list *)

(* the extremes of both groups, and shapes that tie *)
ListShapes ==
    { [pinned_today |-> TRUE, priority |-> "P3", status |-> "PENDING",
       due_date |-> NoDate, client |-> NoClient, created_at |-> Today0],
      [pinned_today |-> TRUE, priority |-> "P2", status |-> "NOT_STARTED",
       due_date |-> Today0, client |-> NoClient, created_at |-> Today0],
      [pinned_today |-> FALSE, priority |-> "P0", status |-> "IN_PROGRESS",
       due_date |-> Today0 - MaxOverdueDays, client |-> Client(20),
       created_at |-> Today0 - MaxAgeDays],
      [pinned_today |-> FALSE, priority |-> "P2", status |-> "NOT_STARTED",
       due_date |-> Today0, client |-> NoClient, created_at |-> Today0],
      [pinned_today |-> FALSE, priority |-> "P2", status |-> "COMPLETED",
       due_date |-> Today0, client |-> Client(0), created_at |-> Today0],
      [pinned_today |-> FALSE, priority |-> "P1", status |-> "NOT_STARTED",
       due_date |-> NoDate, client |-> NoClient, created_at |-> Today0 - 10] }

WithId(shape, i) ==
    [id |-> i, pinned_today |-> shape.pinned_today, priority |-> shape.priority,
     status |-> shape.status, due_date |-> shape.due_date,
     client |-> shape.client, created_at |-> shape.created_at,
     rank_score |-> NoScore]

TaskLists ==
    UNION { { [i \in 1..n |-> WithId(f[i], i)] : f \in [1..n -> ListShapes] }
            : n \in 0..MaxTasks }

IdleTask ==
    /\ task = WithId(CHOOSE s \in ListShapes : s.pinned_today /\ s.priority = "P3", 1)
    /\ score = NoScore
    /\ breakdown = NoBreakdown

RankListInit ==
    /\ weights \in WeightConfigs
    /\ today = Today0
    /\ now = Today0
    /\ tasks \in TaskLists
    /\ ranked = <<>>
    /\ IdleTask
    /\ IdleRecur
    /\ IdleHub
    /\ IdleStep
    /\ IdleView
    /\ IdleCalendar
    /\ IdleMatch

RankTasks ==
    /\ tasks # <<>>
    /\ ranked = <<>>
    /\ ranked' = rank_tasks(tasks, weights, today, now)
    /\ UNCHANGED <<weights, today, now, task, score, breakdown, tasks>>
    /\ UNCHANGED <<recurVars, hubVars, matchVars, stepVars, viewVars, calVars>>

RankListNext == RankTasks

RankListSpec == RankListInit /\ [][RankListNext]_vars

-----------------------------------------------------------------------------
(* Recurrence expansion over a store of templates *)

IdleRank ==
    /\ weights = DefaultWeights
    /\ today = Today0
    /\ now = Today0
    /\ IdleTask
    /\ IdleList

RecurInit ==
    /\ db_tasks \in TemplateTables
    /\ clock \in {Dt(LastClockDay - 3, 1), Dt(LastClockDay - 1, 0)}
    /\ call = IdleCall
    /\ returns = <<>>
    /\ IdleRank
    /\ IdleHub
    /\ IdleStep
    /\ IdleView
    /\ IdleCalendar
    /\ IdleMatch

RecurNext ==
    \/ \E h \in Horizons : GenerateRecurringInstances(h)
    \/ BeginTemplate
    \/ LoopExit
    \/ SkipWeekend
    \/ Materialize
    \/ UpdateNextOccurrence
    \/ Return
    \/ Tick

RecurSpec == RecurInit /\ [][RecurNext]_vars

(* Expansion of weekly templates over several weeks *)
WeeklyInit ==
    /\ db_tasks \in WeeklyTables
    /\ clock = Dt(1, 1)
    /\ call = IdleCall
    /\ returns = <<>>
    /\ IdleRank
    /\ IdleHub
    /\ IdleStep
    /\ IdleView
    /\ IdleCalendar
    /\ IdleMatch

WeeklyNext ==
    \/ \E h \in WeeklyHorizons : GenerateRecurringInstances(h)
    \/ BeginTemplate
    \/ LoopExit
    \/ SkipWeekend
    \/ Materialize
    \/ UpdateNextOccurrence
    \/ Return

WeeklySpec == WeeklyInit /\ [][WeeklyNext]_vars

(* Concurrent expansions of one template, request by request *)
StepInit ==
    /\ \E t \in StepTemplates : db_tasks = <<[t EXCEPT !.id = 1]>>
    /\ db_subtasks \in TemplateSubtasks
    /\ expanders = [e \in Expanders |-> IdleExpander]
    /\ activity_log = <<>>
    /\ clock = Dt(5, 1)
    /\ call = IdleCall
    /\ returns = <<>>
    /\ IdleRank
    /\ task_rows = <<>>
    /\ subtask_rows = <<>>
    /\ last = NoWrites
    /\ ops = 0
    /\ IdleMatch
    /\ IdleView
    /\ IdleCalendar

StepNext ==
    \E e \in Expanders :
        \/ \E h \in StepHorizons : StartExpansion(e, h)
        \/ TestLoop(e)
        \/ CheckExisting(e)
        \/ InsertInstance(e)
        \/ InsertInstanceSubtask(e)
        \/ LinkToParent(e)
        \/ NextOccurrence(e)
        \/ StoreNextOccurrence(e)
        \/ RequestRaises(e)

StepSpec == StepInit /\ [][StepNext]_vars

(* The view requests over a store with due templates *)
ViewInit ==
    /\ db_tasks \in ViewTables
    /\ clock = Dt(5, 1)
    /\ call = IdleCall
    /\ returns = <<>>
    /\ view = NoView
    /\ IdleRank
    /\ IdleHub
    /\ IdleMatch
    /\ IdleStep
    /\ IdleCalendar

ViewNext ==
    \/ \E kind \in {"today", "morning_digest"}, day \in ViewDays :
           GetTodayView(kind, day)
    \/ \E days \in ViewWindows, day \in ViewDays : GetUpcomingView(days, day)

ViewSpec == ViewInit /\ [][ViewNext]_vars

(* The calendar: events synced by the webhook and mapped by hand *)
CalendarInit ==
    /\ rules \in RuleSets
    /\ event_data = [title |-> <<>>, attendees |-> <<>>, gcal_event_id |-> "e1"]
    /\ matched = NotMatched
    /\ calendar_events = <<>>
    /\ IdleRank
    /\ IdleRecur
    /\ IdleHub
    /\ IdleStep
    /\ IdleView

CalendarNext ==
    \/ \E events \in CalendarPayloads : UpsertCalendarEvents(events)
    \/ \E event_id \in 1..2, client_id \in ManualClients :
           MapEventToClient(event_id, client_id)

CalendarSpec == CalendarInit /\ [][CalendarNext]_vars

(* Expansion over a store whose requests may raise *)
FaultInit ==
    /\ db_tasks \in FaultTables
    /\ clock \in {Dt(LastClockDay - 3, 1), Dt(LastClockDay - 1, 0)}
    /\ call = IdleCall
    /\ returns = <<>>
    /\ IdleRank
    /\ IdleHub
    /\ IdleStep
    /\ IdleView
    /\ IdleCalendar
    /\ IdleMatch

FaultHorizons == {8, 12}

FaultNext ==
    \/ \E h \in FaultHorizons : GenerateRecurringInstances(h)
    \/ BeginTemplate
    \/ LoopExit
    \/ SkipWeekend
    \/ Materialize
    \/ ProcessingRaises
    \/ UpdateNextOccurrence
    \/ Return

FaultSpec == FaultInit /\ [][FaultNext]_vars

-----------------------------------------------------------------------------
(* The hub: tasks created, edited by hand and upserted by the webhook *)

HubInit ==
    /\ IdleHub
    /\ IdleStep
    /\ IdleView
    /\ IdleCalendar
    /\ IdleMatch
    /\ IdleRank
    /\ IdleRecur

HubNext ==
    \/ \E t \in TaskCreates : CreateTask(t)
    \/ \E id \in 1..MaxHubTasks, u \in TaskUpdates, a \in ActorType :
           UpdateTask(id, u, a)
    \/ \E id \in 1..MaxHubTasks, st \in TaskStatus : ChangeTaskStatus(id, st)
    \/ \E id \in 1..MaxHubTasks : CompleteTask(id)
    \/ \E id \in 1..MaxHubTasks, s \in SubtaskCreates : CreateSubtask(id, s)
    \/ \E sid \in 1..MaxSubtasks, st \in SubtaskStatus :
           UpdateSubtask(sid, [status |-> st])
    \/ \E items \in Payloads : UpsertTasks(items, NoneRaised(items))

HubSpec == HubInit /\ [][HubNext]_vars

(* The webhook alone: batches ingested, refused in part, sent again *)
IngestNext ==
    \E items \in Batches :
        \E raised \in [1..Len(items) -> BOOLEAN] : UpsertTasks(items, raised)

IngestSpec == HubInit /\ [][IngestNext]_vars

(* The webhook fed with keyed items only, none refused *)
KeyedNext ==
    \E items \in KeyedBatches : UpsertTasks(items, NoneRaised(items))

KeyedSpec == HubInit /\ [][KeyedNext]_vars

(* The subtask operations alone: tasks created with subtasks, subtasks *)
(* added, reordered and deleted                                         *)
SubtaskNext ==
    \/ \E t \in TaskCreates, l \in RankedSubtaskLists :
           CreateTask([t EXCEPT !.subtasks = l])
    \/ \E id \in 1..MaxHubTasks, s \in RankedSubtaskCreates :
           CreateSubtask(id, s)
    \/ \E id \in 1..MaxHubTasks, l \in SubtaskIdLists : ReorderSubtasks(id, l)
    \/ \E sid \in 1..MaxSubtasks : DeleteSubtask(sid)

SubtaskSpec == HubInit /\ [][SubtaskNext]_vars

-----------------------------------------------------------------------------
(* Client matching applied to one calendar event *)

MatchInit ==
    /\ rules \in RuleSets
    /\ event_data \in Events
    /\ matched = NotMatched
    /\ IdleRank
    /\ IdleRecur
    /\ IdleHub
    /\ IdleStep
    /\ IdleView
    /\ IdleCalendar

MatchNext == MatchEventToClient

MatchSpec == MatchInit /\ [][MatchNext]_vars

-----------------------------------------------------------------------------
(* Claims about the ranking functions *)

DaysOverdue(t, day) ==
    IF t.due_date # NoDate /\ t.due_date < day THEN day - t.due_date ELSE 0

(* C1: for every task, weight configuration and reference date,            *)
(* explain_rank(task).total equals calculate_task_rank(task) computed with  *)
(* the same inputs at the same instant.                                     *)
C1_ExplainTotalEqualsRank ==
    (score # NoScore /\ breakdown # NoBreakdown) => breakdown.total = score

(* C6 as stated: with the default weights every pinned task scores at      *)
(* least 1000 whatever its priority, status, due date, client and age.      *)
C6_PinnedAtLeast1000 ==
    (score # NoScore /\ task.pinned_today /\ weights = DefaultWeights)
        => score >= 1000 * 1000

(* C6 amended: with the default weights every pinned task scores at least  *)
(* 990 (1000 plus the pending weight -10), and at least 1000 unless its     *)
(* status is PENDING.                                                       *)
C6_PinnedAtLeast990 ==
    (score # NoScore /\ task.pinned_today /\ weights = DefaultWeights)
        => /\ score >= 990 * 1000
           /\ (task.status # "PENDING" => score >= 1000 * 1000)

C6_Witness ==
    /\ weights = DefaultWeights
    /\ task.pinned_today /\ task.status = "PENDING" /\ task.priority = "P3"
    /\ task.due_date = NoDate /\ ~task.client.present /\ task.created_at = now
    /\ score = 990 * 1000

(* C9: for tasks identical except for the due date the rank does not       *)
(* decrease when the task is one more day overdue, and from 30 days overdue *)
(* onward it stays the same.                                                *)
C9_OverdueMonotoneSaturating ==
    (score # NoScore /\ DaysOverdue(task, today) >= 1) =>
        LET later == [task EXCEPT !.due_date = @ - 1]
            laterScore == calculate_task_rank(later, weights, today, now)
        IN  /\ laterScore >= score
            /\ (DaysOverdue(task, today) >= 30 => laterScore = score)

C9_Witness ==
    /\ score # NoScore
    /\ DaysOverdue(task, today) = 30
    /\ score = calculate_task_rank([task EXCEPT !.due_date = @ - 1],
                                   weights, today, now)
    /\ score > calculate_task_rank([task EXCEPT !.due_date = @ + 1],
                                   weights, today, now)

(* C7: with the default weights and client weights in 0..20, every pinned  *)
(* task precedes every unpinned task in the list rank_tasks returns.        *)
C7_PinnedFirst ==
    (ranked # <<>> /\ weights = DefaultWeights) =>
        \A i, j \in 1..Len(ranked) :
            (ranked[i].pinned_today /\ ~ranked[j].pinned_today) => i < j

C7_Witness ==
    /\ weights = DefaultWeights
    /\ Len(ranked) >= 2
    /\ ~tasks[1].pinned_today /\ tasks[1].priority = "P0"
    /\ tasks[Len(tasks)].pinned_today /\ tasks[Len(tasks)].status = "PENDING"
    /\ ranked[1].pinned_today /\ ~ranked[Len(ranked)].pinned_today

(* C8: rank_tasks returns the tasks of its input in non-increasing order   *)
(* of rank score, and tasks with equal scores keep their input order (the   *)
(* id of a task is its position in the input).                              *)
C8_SortedStable ==
    ranked # <<>> =>
        /\ Len(ranked) = Len(tasks)
        /\ \A k \in 1..Len(tasks) : \E i \in 1..Len(ranked) :
               /\ ranked[i].id = k
               /\ ranked[i].rank_score =
                      calculate_task_rank(tasks[k], weights, today, now)
        /\ \A i, j \in 1..Len(ranked) :
               i < j => /\ ranked[i].rank_score >= ranked[j].rank_score
                        /\ (ranked[i].rank_score = ranked[j].rank_score
                               => ranked[i].id < ranked[j].id)

C8_Witness ==
    /\ Len(ranked) = 3
    /\ ranked[1].id = 2
    /\ ranked[2].id = 1 /\ ranked[3].id = 3
    /\ ranked[2].rank_score = ranked[3].rank_score
    /\ ranked[1].rank_score > ranked[2].rank_score

(* C12: for an unpinned NOT_STARTED task with no client, created at the    *)
(* current instant and due on the reference date, calculate_task_rank       *)
(* returns the priority weight plus the due_today weight; for priority P0   *)
(* and the weights priority_p0 = 50, due_today = 60 that is 110.            *)
FreshDueToday ==
    /\ score # NoScore
    /\ ~task.pinned_today
    /\ task.status = "NOT_STARTED"
    /\ task.client = NoClient
    /\ task.created_at = now
    /\ task.due_date = today

PriorityWeight(t, w) ==
    CASE t.priority = "P0" -> w.priority_p0
      [] t.priority = "P1" -> w.priority_p1
      [] t.priority = "P2" -> w.priority_p2
      [] t.priority = "P3" -> w.priority_p3

C12_PriorityPlusDueToday ==
    FreshDueToday =>
        /\ score = (PriorityWeight(task, weights) + weights.due_today) * 1000
        /\ (task.priority = "P0" /\ weights.priority_p0 = 50
                /\ weights.due_today = 60) => score = 110 * 1000

C12_Witness ==
    /\ FreshDueToday
    /\ task.priority = "P0"
    /\ weights = DefaultWeights
    /\ score = 110 * 1000

-----------------------------------------------------------------------------
(* Claims about recurrence expansion *)

(* C2: when generate_recurring_instances runs twice in sequence with the   *)
(* same horizon date and nothing else changes the store in between, the     *)
(* second call creates no instance, neither by the time it returns nor      *)
(* while it runs.                                                           *)
C2_SecondCallCreatesNothing ==
    /\ \A k \in 2..Len(returns) :
           returns[k].up_to_date = returns[k - 1].up_to_date
               => returns[k].created = <<>>
    /\ (call.pc # "idle" /\ returns # <<>>
        /\ call.up_to_date = returns[Len(returns)].up_to_date)
           => (call.created = <<>> /\ call.created_instances = <<>>)

(* C10: no instance that expansion creates for a template with             *)
(* recurrence_skip_weekends = true is due on a Saturday or Sunday.          *)
C10_NoWeekendInstances ==
    \A i \in 1..Len(db_tasks) :
        (db_tasks[i].parent_recurring_task_id # NoId
         /\ db_tasks[db_tasks[i].parent_recurring_task_id].recurrence_skip_weekends)
            => ~(Weekday(db_tasks[i].due_date) \in {5, 6})

(* C11: for a template with rule FREQ=WEEKLY;BYDAY=MO, an anchor date that *)
(* is a Monday, stored next occurrence equal to the anchor and no end date, *)
(* one expansion with horizon anchor + 21 creates exactly 3 instances, each *)
(* due on a Monday, and leaves next_occurrence_at at the 4th Monday         *)
(* (anchor + 21).                                                           *)
WeeklyMondayTemplates ==
    IF returns = <<>> THEN {}
    ELSE {i \in 1..Len(returns[1].selected) :
             LET row == returns[1].selected[i]
             IN  /\ row.recurrence_rule = "FREQ=WEEKLY;BYDAY=MO"
                 /\ row.recurrence_anchor_date # NoDate
                 /\ Weekday(row.recurrence_anchor_date) = 0
                 /\ row.next_occurrence_at = Midnight(row.recurrence_anchor_date)
                 /\ row.recurrence_end_date = NoDate
                 /\ returns[1].up_to_date = row.recurrence_anchor_date + 21}

(* the instances the first call created for the template it selected i-th *)
FirstCallInstances(i) ==
    {j \in {returns[1].created[k] : k \in 1..Len(returns[1].created)} :
        db_tasks[j].parent_recurring_task_id = returns[1].selected[i].id}

JustReturned == Len(returns) = 1 /\ call.pc = "idle"

ThreeWeeksOut(n, nth) ==
    \A i \in WeeklyMondayTemplates :
        LET row == returns[1].selected[i]
        IN  /\ Cardinality(FirstCallInstances(i)) = n
            /\ \A j \in FirstCallInstances(i) : Weekday(db_tasks[j].due_date) = 0
            /\ JustReturned =>
                   db_tasks[row.id].next_occurrence_at
                       = Midnight(row.recurrence_anchor_date + 7 * (nth - 1))

C11_ThreeInstancesFourthMonday == ThreeWeeksOut(3, 4)

(* C11, as the code has it: the horizon date itself is inside the loop     *)
(* (cursor <= horizon), so the expansion creates exactly 4 instances, due   *)
(* on the anchor and the three Mondays after it, and leaves                 *)
(* next_occurrence_at at the 5th Monday (anchor + 28).                      *)
C11_FourInstancesFifthMonday ==
    /\ ThreeWeeksOut(4, 5)
    /\ \A i \in WeeklyMondayTemplates :
           {db_tasks[j].due_date : j \in FirstCallInstances(i)}
               = {returns[1].selected[i].recurrence_anchor_date + 7 * k :
                      k \in 0..3}

C11_Witness ==
    /\ JustReturned
    /\ WeeklyMondayTemplates # {}
    /\ \E i \in WeeklyMondayTemplates :
           Cardinality(FirstCallInstances(i)) = 4

(* C16: a template whose rule is malformed, or whose processing raises,    *)
(* does not keep the other candidate templates of the same call from being  *)
(* expanded: each of them has all of its due instances once the call has    *)
(* returned.                                                                *)
Malformed(row) ==
    row.recurrence_rule = NoRule \/ rrulestr(row.recurrence_rule) = ParseError

(* the dates the loop of one template materializes, from cursor cur on *)
RECURSIVE DueInstances(_, _, _, _)
DueInstances(row, dtstart, cur, up_to_date) ==
    IF cur > up_to_date
           \/ (row.recurrence_end_date # NoDate /\ cur > row.recurrence_end_date)
        THEN {}
    ELSE IF row.recurrence_skip_weekends /\ Weekday(cur) \in {5, 6}
        THEN DueInstances(row, dtstart, cur + (7 - Weekday(cur)), up_to_date)
    ELSE LET next_dt == RuleAfter(rrulestr(row.recurrence_rule), dtstart,
                                  Midnight(cur))
         IN  {cur} \cup (IF next_dt = NoDt THEN {}
                         ELSE DueInstances(row, dtstart, next_dt.date,
                                           up_to_date))

Expanded(ret, row) ==
    LET dtstart == IF row.recurrence_anchor_date # NoDate
                       THEN Midnight(row.recurrence_anchor_date) ELSE ret.now
        cur == IF row.next_occurrence_at # NoDt THEN row.next_occurrence_at.date
               ELSE ret.now.date
    IN  \A d \in DueInstances(row, dtstart, cur, ret.up_to_date) :
            InstanceExists(db_tasks, row.id, d)

Rows(ret) == {ret.selected[i] : i \in 1..Len(ret.selected)}

Failed(ret) == {row \in Rows(ret) : Malformed(row) \/ row.id \in ret.raised}

C16_FailureIsIsolated ==
    (call.pc = "idle" /\ returns # <<>>) =>
        LET ret == returns[Len(returns)]
        IN  Failed(ret) # {} =>
                \A row \in Rows(ret) \ Failed(ret) : Expanded(ret, row)

(* one call met a template that is malformed or whose processing raised,    *)
(* and expanded the template after it                                       *)
C16_Witness ==
    /\ Len(returns) = 1
    /\ call.pc = "idle"
    /\ LET ret == returns[1]
        IN  /\ Len(ret.selected) = 2
            /\ ret.selected[1] \in Failed(ret)
            /\ ret.selected[2] \notin Failed(ret)
            /\ DueInstances(ret.selected[2], Midnight(1), 5, ret.up_to_date) # {}
            /\ Expanded(ret, ret.selected[2])
            /\ ret.created # <<>>

(* the instances created so far, each with the horizon of the call that   *)
(* created it                                                               *)
CreatedUpTo ==
    UNION {{<<returns[k].created[n], returns[k].up_to_date>> :
                n \in 1..Len(returns[k].created)} : k \in 1..Len(returns)}
        \cup {<<call.created_instances[n], call.up_to_date>> :
                n \in 1..Len(call.created_instances)}
        \cup {<<call.created[n], call.up_to_date>> : n \in 1..Len(call.created)}

InstanceRows == {i \in 1..Len(db_tasks) : db_tasks[i].parent_recurring_task_id # NoId}

(* C19: for a template with a recurrence end date, expansion never creates *)
(* an instance due later than the end date or later than the horizon of    *)
(* the call, and the template's is_recurring flag stays true when the end   *)
(* date is reached.                                                         *)
C19_EndDateAndHorizonBoundInstances ==
    /\ InstanceRows = {p[1] : p \in CreatedUpTo}
    /\ \A p \in CreatedUpTo :
           LET parent == db_tasks[db_tasks[p[1]].parent_recurring_task_id]
           IN  parent.recurrence_end_date # NoDate
                   => /\ db_tasks[p[1]].due_date <= parent.recurrence_end_date
                      /\ db_tasks[p[1]].due_date <= p[2]
    /\ \A i \in 1..Len(db_tasks) :
           (db_tasks[i].recurrence_rule # NoRule
            /\ db_tasks[i].recurrence_end_date # NoDate) => db_tasks[i].is_recurring

(* a daily template ending on day 8, expanded with a later horizon: the    *)
(* instance of day 8 exists and the template is still recurring             *)
C19_Witness ==
    /\ call.pc = "idle"
    /\ \E k \in 1..Len(returns) : \E n \in 1..Len(returns[k].selected) :
           LET row == returns[k].selected[n]
           IN  /\ row.recurrence_rule = "FREQ=DAILY"
               /\ row.recurrence_end_date # NoDate
               /\ returns[k].up_to_date > row.recurrence_end_date
               /\ db_tasks[row.id].is_recurring
               /\ \E p \in CreatedUpTo :
                      /\ db_tasks[p[1]].parent_recurring_task_id = row.id
                      /\ db_tasks[p[1]].due_date = row.recurrence_end_date
                      /\ p[2] = returns[k].up_to_date

(* C20: the loop of generate_instances_for_task terminates for every      *)
(* template and horizon, templates without an anchor date included: every  *)
(* iteration that stays in the loop moves the cursor date strictly forward. *)
C20_CursorStrictlyIncreases ==
    [][(InLoop(call) /\ call'.pc = "while") => call'.current > call.current]_vars

(* the dates after the horizon on which the rule of the call has an       *)
(* occurrence, within one period of the rule                                *)
OccurrencesAfter(c) ==
    LET rule == rrulestr(c.recurring_task.recurrence_rule)
        from == IF c.dtstart.date > c.up_to_date THEN c.dtstart.date
                ELSE c.up_to_date + 1
    IN  {d \in from..(from + RulePeriod(rule) - 1) : Occurs(rule, c.dtstart.date, d)}

(* C24: after generate_instances_for_task returns for a template with a   *)
(* parsable rule that has an occurrence after the horizon, the stored       *)
(* next_occurrence_at is the first occurrence strictly after the horizon    *)
(* date, whether or not an instance was created, so the template is not a   *)
(* candidate for a following call with the same horizon.                    *)
C24_NextOccurrenceIsAfterHorizon ==
    [][(call.pc = "update" /\ call'.pc = "for" /\ OccurrencesAfter(call) # {})
          => LET stored == db_tasks'[call.recurring_task.id]
             IN  /\ stored.next_occurrence_at.date \in OccurrencesAfter(call)
                 /\ \A d \in OccurrencesAfter(call) :
                        stored.next_occurrence_at.date <= d
                 /\ ~IsCandidate(stored, call.up_to_date)]_vars

(* the calls that selected template i, and the cursor the first of them   *)
(* started from                                                             *)
CallsSelecting(i) ==
    {k \in 1..Len(returns) :
        \E n \in 1..Len(returns[k].selected) : returns[k].selected[n].id = i}

FirstCursor(i) ==
    LET k == CHOOSE c \in CallsSelecting(i) : \A o \in CallsSelecting(i) : c <= o
        n == CHOOSE m \in 1..Len(returns[k].selected) : returns[k].selected[m].id = i
    IN  returns[k].selected[n].next_occurrence_at.date

FollowingMonday(d) == d + (7 - Weekday(d))

(* C27: for a skip-weekends template, every rule occurrence that falls on *)
(* a Saturday or Sunday gets exactly one instance on the following Monday   *)
(* once expansion has run with a horizon on or after that Monday, whatever  *)
(* horizons earlier calls used.                                             *)
C27_WeekendOccurrenceLandsOnMonday ==
    call.pc = "idle"
        => \A i \in 1..Len(db_tasks) :
               LET row == db_tasks[i]
               IN  (/\ row.is_recurring
                    /\ row.recurrence_skip_weekends
                    /\ row.recurrence_anchor_date # NoDate
                    /\ row.recurrence_rule # NoRule
                    /\ rrulestr(row.recurrence_rule) # ParseError
                    /\ CallsSelecting(i) # {})
                       => \A k \in 1..Len(returns) :
                              \A d \in FirstCursor(i)..returns[k].up_to_date :
                                  (/\ IsWeekend(d)
                                   /\ Occurs(rrulestr(row.recurrence_rule),
                                             row.recurrence_anchor_date, d)
                                   /\ FollowingMonday(d) <= returns[k].up_to_date
                                   /\ (row.recurrence_end_date = NoDate
                                       \/ FollowingMonday(d) <= row.recurrence_end_date))
                                      => Cardinality(
                                             {j \in 1..Len(db_tasks) :
                                                 /\ db_tasks[j].parent_recurring_task_id = i
                                                 /\ db_tasks[j].due_date = FollowingMonday(d)})
                                           = 1

(* C28: across any sequence of generate_recurring_instances calls with  *)
(* arbitrary horizons, a template's stored next_occurrence_at never moves   *)
(* to an earlier date, and expansion changes no field of a template other   *)
(* than next_occurrence_at.                                                 *)
C28_CursorNeverMovesBack ==
    [][\A i \in 1..Len(db_tasks) :
           db_tasks[i].is_recurring
               => /\ i <= Len(db_tasks')
                  /\ db_tasks'[i] = [db_tasks[i] EXCEPT !.next_occurrence_at =
                                         db_tasks'[i].next_occurrence_at]
                  /\ \/ db_tasks'[i].next_occurrence_at = db_tasks[i].next_occurrence_at
                     \/ /\ db_tasks[i].next_occurrence_at # NoDt
                        /\ db_tasks'[i].next_occurrence_at # NoDt
                        /\ db_tasks'[i].next_occurrence_at.date
                               >= db_tasks[i].next_occurrence_at.date]_vars

(* a second call has returned after a first one moved a template's cursor   *)
C28_Witness ==
    /\ Len(returns) = 2
    /\ \E n \in 1..Len(returns[1].selected) :
           LET before == returns[1].selected[n]
           IN  /\ before.next_occurrence_at.date
                      < db_tasks[before.id].next_occurrence_at.date
               /\ returns[2].up_to_date < returns[1].up_to_date

C10_Witness ==
    /\ call.pc = "while"
    /\ call.recurring_task.recurrence_skip_weekends
    /\ call.recurring_task.next_occurrence_at = Midnight(6)
    /\ call.current > 8
    /\ InstanceExists(db_tasks, call.recurring_task.id, 8)
    /\ ~InstanceExists(db_tasks, call.recurring_task.id, 6)

-----------------------------------------------------------------------------
(* Claims about the hub's store *)

Writes == {last.writes[i] : i \in 1..Len(last.writes)}

(* the writes of an automated actor to a task that was manually edited *)
AutomatedWrites ==
    {w \in Writes : /\ w.op \in {"upsert_tasks", "update_task"}
                    /\ w.actor # "MANUAL"
                    /\ w.before.manually_edited}

(* the upserts that found an existing task *)
UpsertsOfExisting ==
    {w \in Writes : w.op = "upsert_tasks" /\ w.before.id # NoId}

MergedFields == {"tags", "labels"}

(* C3: no task has status COMPLETED while one of its own subtasks has a    *)
(* status other than COMPLETED.                                             *)
C3_NoCompletedWithOpenSubtask ==
    \A i \in 1..Len(task_rows) :
        task_rows[i].status = "COMPLETED" => Incomplete(HubStore, i) = {}

(* C4: a write by an actor other than MANUAL to a manually edited task,    *)
(* through the webhook upsert or update_task, leaves every field named in  *)
(* manual_fields unchanged, and every incoming field that is not protected *)
(* takes the incoming value (tags and labels, which are merged, excepted). *)
C4_ManualFieldsProtected ==
    \A w \in AutomatedWrites :
        /\ \A f \in (w.before.manual_fields \cap TaskFields) \ MergedFields :
               w.after[f] = w.before[f]
        /\ \A f \in (DOMAIN w.incoming \ w.before.manual_fields) \ MergedFields :
               w.after[f] = w.incoming[f]

Upserted == last.op = "upsert_tasks"

C13_EveryItemCountedOnce ==
    Upserted =>
        /\ last.results.created + last.results.updated
               + Len(last.results.errors) = Len(last.request)
        /\ Len(last.writes) = Cardinality({i \in 1..Len(last.request) :
                                              ~last.raised[i]})
        /\ Len(last.results.errors) = Cardinality({i \in 1..Len(last.request) :
                                                      last.raised[i]})
        /\ last.success = (last.results.errors = <<>>)

(* the first item of a batch of two failed, the second was still written *)
C13_Witness ==
    /\ Upserted
    /\ last.raised = <<TRUE, FALSE>>
    /\ Len(last.results.errors) = 1
    /\ last.results.created + last.results.updated = 1
    /\ Len(last.writes) = 1
    /\ ~last.success

(* C14: when a batch that was ingested is submitted again, with nothing in *)
(* between, the second submission creates no task row (created = 0) and     *)
(* the number of tasks in the store is unchanged.                           *)
Resubmitted ==
    /\ Upserted
    /\ last.request # <<>>
    /\ last.prior.request = last.request
    /\ last.prior.success

C14_ResubmissionCreatesNothing ==
    Resubmitted =>
        /\ last.results.created = 0
        /\ \A w \in Writes : w.before.id # NoId

(* C17: a MANUAL update_task adds every edited field name to               *)
(* manual_fields and sets manually_edited, and from then on, whatever       *)
(* writes follow, manually_edited never becomes false again and no field    *)
(* name leaves manual_fields.                                               *)
ManualUpdates ==
    {w \in Writes : w.op = "update_task" /\ w.actor = "MANUAL"}

C17_ManualFlagsOnlyGrow ==
    [][/\ \A w \in ManualUpdates' :
              /\ w.after.manually_edited
              /\ DOMAIN w.incoming \subseteq w.after.manual_fields
       /\ Len(task_rows') >= Len(task_rows)
       /\ \A i \in 1..Len(task_rows) :
              /\ task_rows[i].manually_edited => task_rows'[i].manually_edited
              /\ task_rows[i].manual_fields \subseteq task_rows'[i].manual_fields
      ]_vars

(* a task edited by hand twice, on different fields, and then upserted by  *)
(* the webhook: both field names are still protected                        *)
C17_Witness ==
    \E w \in UpsertsOfExisting :
        /\ w.before.manually_edited
        /\ Cardinality(w.before.manual_fields) >= 2
        /\ w.after.manually_edited
        /\ w.after.manual_fields = w.before.manual_fields

(* C18: in every store state reached by create_task with subtasks,        *)
(* create_subtask, reorder_subtasks and delete_subtask, the order_rank     *)
(* values of the subtasks of one task are pairwise distinct.               *)
C18_OrderRanksDistinct ==
    \A task_id \in 1..Len(task_rows) :
        \A i, j \in SubtasksOf(HubStore, task_id) :
            i # j => subtask_rows[i].order_rank # subtask_rows[j].order_rank

-----------------------------------------------------------------------------
(* Claims about client matching *)

(* the clients of the rules that match the event, kind by kind *)
OverrideClients ==
    {rules.overrides[i].client_id : i \in {j \in 1..Len(rules.overrides) :
        rules.overrides[j].gcal_event_id = event_data.gcal_event_id}}

DomainClients ==
    {rules.domains[i].client_id : i \in {j \in 1..Len(rules.domains) :
        \E a \in 1..Len(event_data.attendees) :
            LET email == event_data.attendees[a].email
            IN  /\ AtSigns(email) # {}
                /\ LowerStr(SplitDomain(email)) = LowerStr(rules.domains[j].domain)}}

KeywordClients ==
    {rules.keywords[i].client_id : i \in {j \in 1..Len(rules.keywords) :
        Contains(LowerStr(rules.keywords[j].keyword), LowerStr(event_data.title))}}

(* C15: match_event_to_client resolves by strict priority: a matching      *)
(* event-id override wins over any domain or keyword match, a matching      *)
(* attendee email domain wins over any keyword match, a case-insensitive    *)
(* keyword substring of the title is used only when neither of the others   *)
(* matches, and when nothing matches the client is null.                    *)
C15_StrictPriority ==
    matched # NotMatched =>
        IF OverrideClients # {}
            THEN matched.method = "override" /\ matched.client_id \in OverrideClients
        ELSE IF DomainClients # {}
            THEN matched.method = "domain" /\ matched.client_id \in DomainClients
        ELSE IF KeywordClients # {}
            THEN matched.method = "keyword" /\ matched.client_id \in KeywordClients
        ELSE matched.client_id = NoClientId

(* a domain rule and a keyword rule of different clients both match, in    *)
(* different letter case, and the domain rule's client is returned          *)
C15_Witness ==
    /\ matched # NotMatched
    /\ OverrideClients = {}
    /\ DomainClients # {}
    /\ KeywordClients # {}
    /\ DomainClients \cap KeywordClients = {}
    /\ matched.method = "domain"
    /\ \E a \in 1..Len(event_data.attendees), j \in 1..Len(rules.domains) :
           /\ AtSigns(event_data.attendees[a].email) # {}
           /\ SplitDomain(event_data.attendees[a].email) # rules.domains[j].domain
           /\ rules.domains[j].client_id = matched.client_id

-----------------------------------------------------------------------------
(* Claims about expansion request by request *)

(* every other expansion has returned or has not started *)
OthersAtRest(e) ==
    \A o \in Expanders \ {e} : expanders[o].pc \in {"idle", "returned"}

(* C21: if a store write fails while an instance is being materialized    *)
(* (task insert, subtask insert, parent link update or audit write), no     *)
(* task row for that instance remains in the store afterwards, and the      *)
(* template's next_occurrence_at is not advanced past that occurrence.      *)
C21_NoPartialInstance ==
    \A e \in Expanders :
        LET c == expanders[e]
        IN  (c.pc = "returned" /\ c.raised # NoFailure)
                => /\ ~\E i \in 1..Len(db_tasks) :
                          db_tasks[i].id = c.raised.instance_id
                   /\ (\A o \in Expanders \ {e} : expanders[o].pc = "idle")
                          => db_tasks[c.recurring_task.id].next_occurrence_at.date
                                 <= c.raised.instance_date

(* C22: when the store rejects the insert of an instance with a duplicate  *)
(* key error, expansion treats the occurrence as already existing and skips *)
(* it: the remaining occurrences of the template up to the horizon are      *)
(* still created and the template's next_occurrence_at is still advanced.   *)
C22_DuplicateKeyIsSkipped ==
    \A e \in Expanders :
        LET c == expanders[e]
            parent == c.recurring_task
        IN  (/\ c.pc = "returned"
             /\ c.raised.request = "insert"
             /\ InstanceExists(db_tasks, parent.id, c.raised.instance_date)
             /\ OthersAtRest(e))
                => /\ \A d \in DueInstances(parent, c.dtstart,
                                            c.raised.instance_date, c.up_to_date) :
                          InstanceExists(db_tasks, parent.id, d)
                   /\ DtLess(Midnight(c.up_to_date),
                             db_tasks[parent.id].next_occurrence_at)

(* C23: when two expansions of the same template run concurrently, under   *)
(* every interleaving of their existence checks, task inserts and parent    *)
(* link updates, the store ends with at most one instance per               *)
(* (parent_recurring_task_id, due_date) pair.                               *)
C23_OneInstancePerOccurrence ==
    \A i, j \in 1..Len(db_tasks) :
        (/\ i # j
         /\ db_tasks[i].parent_recurring_task_id # NoId
         /\ db_tasks[i].parent_recurring_task_id = db_tasks[j].parent_recurring_task_id)
            => db_tasks[i].due_date # db_tasks[j].due_date

(* C26: for every instance that expansion materializes, an activity log    *)
(* entry with action RECURRENCE_GENERATED for the instance's id exists when *)
(* expansion returns, and the instance has is_recurring = false and status  *)
(* NOT_STARTED, with all copied subtasks NOT_STARTED.                       *)
C26_InstanceLoggedAndFresh ==
    \A e \in Expanders :
        expanders[e].pc = "returned"
            => \A k \in 1..Len(expanders[e].created) :
                   LET id == expanders[e].created[k]
                   IN  /\ \E n \in 1..Len(activity_log) :
                              activity_log[n] = LogEntry(id, "RECURRENCE_GENERATED")
                       /\ ~db_tasks[id].is_recurring
                       /\ db_tasks[id].status = "NOT_STARTED"
                       /\ \A n \in SubtaskRowsOf(db_subtasks, id) :
                              db_subtasks[n].status = "NOT_STARTED"

-----------------------------------------------------------------------------
(* Claims about the views *)

(* the dates on which a due template has an instance pending in the window *)
PendingIn(row, v) ==
    IF ~IsCandidate(row, v.up_to) \/ row.recurrence_rule = NoRule
           \/ rrulestr(row.recurrence_rule) = ParseError
        THEN {}
    ELSE {d \in DueInstances(row, Midnight(row.recurrence_anchor_date),
                             row.next_occurrence_at.date, v.up_to) :
              v.from = NoDate \/ d >= v.from}

(* C25: in every request that serves a ranked view (Today, Upcoming,      *)
(* morning digest), recurrence expansion up to the view's date window runs  *)
(* before the tasks are loaded and ranked, so every pending instance of a   *)
(* due recurring template is present in the ranked list.                    *)
C25_ViewHoldsPendingInstances ==
    view # NoView
        => \A i \in 1..Len(db_tasks) :
               \A d \in PendingIn(db_tasks[i], view) :
                   \E n \in 1..Len(view.tasks) :
                       LET row == db_tasks[view.tasks[n].id]
                       IN  /\ row.parent_recurring_task_id = db_tasks[i].id
                           /\ row.due_date = d

-----------------------------------------------------------------------------
(* Claims about the identity of ingested items *)

(* C29: in the task upsert webhook, two items with different idempotency   *)
(* keys never resolve to the same stored task: each distinct idempotency    *)
(* key ends up with its own task row, also when the items share the same    *)
(* source_type and source_id.                                               *)
C29_DistinctKeysDistinctRows ==
    (last.op = "upsert_tasks" /\ last.success)
        => /\ \A i, j \in 1..Len(last.request) :
                  last.request[i].idempotency_key # last.request[j].idempotency_key
                      => last.writes[i].task_id # last.writes[j].task_id
           /\ \A i \in 1..Len(last.request) :
                  /\ task_rows[last.writes[i].task_id].idempotency_key
                         = last.request[i].idempotency_key
                  /\ \E r \in 1..Len(task_rows) :
                         task_rows[r].idempotency_key
                             = last.request[i].idempotency_key

-----------------------------------------------------------------------------
(* Claims about calendar events *)

(* C30: after a calendar event has been mapped to a client manually        *)
(* (map_event_to_client, match_method "manual"), later automated calendar   *)
(* upserts of the same gcal_event_id leave the event's client_id and        *)
(* match_method unchanged.                                                  *)
C30_ManualMappingKept ==
    [][\/ \E event_id \in 1..2, client_id \in ManualClients :
              MapEventToClient(event_id, client_id)
       \/ \A i \in 1..Len(calendar_events) :
              calendar_events[i].match_method = "manual"
                  => /\ i <= Len(calendar_events')
                     /\ calendar_events'[i].gcal_event_id
                            = calendar_events[i].gcal_event_id
                     /\ calendar_events'[i].client_id = calendar_events[i].client_id
                     /\ calendar_events'[i].match_method = "manual"]_vars
====
